---------------------------- MODULE Spec2Model ----------------------------
(***************************************************************************)
(* Talk to CMAC (src-tauri): the command layer (commands.rs), the shared   *)
(* state container (state.rs) and the three HTTP clients with their retry  *)
(* loops (api/whisper.rs, api/openwebui.rs, api/elevenlabs.rs).            *)
(*                                                                         *)
(* Every AppState method takes the mutex, acts and releases it, so each    *)
(* method call is one atomic step.  Every .await (a request in flight, a   *)
(* backoff sleep) is a point where other tasks may run.  Message           *)
(* timestamps and conversation started_at/updated_at are not carried.      *)
(***************************************************************************)
EXTENDS Integers, Sequences, FiniteSets, TLC

VARIABLES
    status,        \* AppStateInner.status
    conversation,  \* AppStateInner.conversation: [id, messages, max_messages]
    config,        \* AppStateInner.config
    api_keys,      \* AppStateInner.api_keys
    connectivity,  \* AppStateInner.connectivity
    lock,          \* the Mutex around AppStateInner: "free" or the task holding it
    issued,        \* history: the conversation ids generate_id has returned
    appended,      \* history: messages pushed since the conversation was created
    pc,            \* per task: position in the command it runs
    loc,           \* per task: the command's local variables
    call,          \* per task: the frame of the client operation it is inside
    host,          \* outside the process: environment variables, the keyring
    runs           \* history: how many invocations have been made

vars == <<status, conversation, config, api_keys, connectivity, lock, issued,
          appended, pc, loc, call, host, runs>>

shared ==
    <<status, conversation, config, api_keys, connectivity, issued, appended, host>>

---------------------------------------------------------------------------
(* Bounds of the model *)

\* direct add_message calls a driver makes (test_max_messages makes 25)
MaxAdds == 23

\* conversation identifiers generate_id can draw from
MaxIds == 2

\* command invocations each task makes in the concurrent specification
MaxRuns == 2

\* AppState method calls a driver makes one after another
MaxCalls == 3

---------------------------------------------------------------------------
(* Program constants *)

max_retries == 3

MAX_SIZE == 25 * 1024 * 1024

MAX_CHARS == 5000

DefaultMaxMessages == 20

DefaultMaxContextLength == 4096

Services == {"whisper", "openwebui", "elevenlabs"}

Tasks == {"t1", "t2"}

None == [tag |-> "None"]

Some(v) == [tag |-> "Some", v |-> v]

Ok(v) == [tag |-> "Ok", v |-> v]

Err(e) == [tag |-> "Err", e |-> e]

IsOk(r) == r.tag = "Ok"

IsErr(r) == r.tag = "Err"

---------------------------------------------------------------------------
(* Strings: a text is its characters' name and its length in bytes *)

Str(s, n) == [s |-> s, i |-> 0, len |-> n]

\* format!("Message {}", i) of test_max_messages
MessageN(i) == [s |-> "Message", i |-> i, len |-> IF i < 10 THEN 9 ELSE 10]

Hello == Str("hello", 5)

Hola == Str("hola", 4)

Blank == Str("   ", 3)

LongText == Str("long question", DefaultMaxContextLength + 1)

HiThere == Str("hi there", 8)

LongReply == Str("long answer", MAX_CHARS + 1)

\* n times a character that takes two bytes in UTF-8
Accented(n) == Str("e-acute", 2 * n)

\* str::chars().count(): the characters of a text, where str::len() is its
\* bytes
Chars(t) == IF t.s = "e-acute" THEN t.len \div 2 ELSE t.len

\* str::trim().is_empty()
TrimIsEmpty(t) == t.s \in {"", " ", "   "}

\* what the transcription service can answer
Transcripts == {Hello, Hola, Blank, LongText}

\* what the chat service can answer
Replies == {HiThere, LongReply}

\* what the speech service can answer
AudioOuts == {<<1, 2, 3>>, <<>>}

Audio(name, n) == [len |-> n, name |-> name]

\* audio_data inputs: ordinary, exactly at the limit, one byte over
Audios == {Audio("X", 1), Audio("limit", MAX_SIZE), Audio("big", MAX_SIZE + 1)}

---------------------------------------------------------------------------
(* error.rs: the error values and their Display text *)

Error(svc, kind, detail) == [svc |-> svc, kind |-> kind, detail |-> detail]

\* #[error("... API error: {0}")] of AppError, then the inner #[error(..)]
AppErrorPrefix(svc) ==
    CASE svc = "whisper" -> "Whisper API error: "
      [] svc = "openwebui" -> "OpenWebUI API error: "
      [] svc = "elevenlabs" -> "ElevenLabs API error: "
      [] svc = "config" -> "Configuration error: "

\* e.to_string()
to_string(e) == <<AppErrorPrefix(e.svc), e.kind, e.detail>>

---------------------------------------------------------------------------
(* state.rs: AppStatus, MessageRole, Message *)

Idle == [tag |-> "Idle"]

Transcribing == [tag |-> "Transcribing"]

Thinking == [tag |-> "Thinking"]

Speaking == [tag |-> "Speaking"]

StatusError(m) == [tag |-> "Error", message |-> m]

InProgress == {Transcribing, Thinking, Speaking}

Message(role, content) == [role |-> role, content |-> content]

\* ServiceStatus
Unknown == [tag |-> "Unknown"]

Checking == [tag |-> "Checking"]

Connected == [tag |-> "Connected"]

Disconnected(reason) == [tag |-> "Disconnected", reason |-> reason]

\* current_timestamp(): the clock's reading, some time after the epoch
Now == 1

CheckedConnectivity ==
    [whisper |-> Unknown, openwebui |-> Checking, elevenlabs |-> Unknown,
     last_checked |-> Now]

\* AppState::new: connectivity
NewConnectivity ==
    [whisper |-> Unknown, openwebui |-> Unknown, elevenlabs |-> Unknown,
     last_checked |-> 0]

User == "User"

Assistant == "Assistant"

System == "System"

---------------------------------------------------------------------------
(* state.rs: the conversation *)

\* generate_id draws a random u64; the identifiers it can draw
Ids == 1 .. MaxIds

TrimKeepsOldest(messages, max) ==
    IF Len(messages) > max THEN SubSeq(messages, 1, max) ELSE messages

TrimOffByOne(messages, max) ==
    IF Len(messages) > max + 1
    THEN SubSeq(messages, Len(messages) - max, Len(messages))
    ELSE messages

\* add_message, "Trim old messages if exceeding max": messages[start..]
Trim(messages, max) ==
    IF Len(messages) > max
    THEN LET start == Len(messages) - max
         IN  SubSeq(messages, start + 1, Len(messages))
    ELSE messages

PushedFront(conv, role, content) ==
    [conv EXCEPT !.messages =
        Trim(<<Message(role, content)>> \o conv.messages, conv.max_messages)]

PushedReplacing(conv, role, content) ==
    [conv EXCEPT !.messages = <<Message(role, content)>>]

\* AppState::add_message on a conversation value
Pushed(conv, role, content) ==
    [conv EXCEPT !.messages =
        Trim(Append(conv.messages, Message(role, content)), conv.max_messages)]

ClearedKeepsMessages(conv, id) == [conv EXCEPT !.id = id]

\* AppState::clear_conversation on a conversation value, id drawn by generate_id
Cleared(conv, id) ==
    [messages |-> <<>>, max_messages |-> conv.max_messages, id |-> id]

ApiRole(role) ==
    CASE role = User -> "user"
      [] role = Assistant -> "assistant"
      [] role = System -> "system"

ApiMessagesLast(conv) ==
    IF Len(conv.messages) = 0 THEN <<>>
    ELSE <<<<ApiRole(conv.messages[Len(conv.messages)].role),
             conv.messages[Len(conv.messages)].content>>>>

ApiMessagesBeforeLast(conv) ==
    [i \in 1 .. Len(conv.messages) - 1 |->
        <<ApiRole(conv.messages[i].role), conv.messages[i].content>>]

\* AppState::get_api_messages: (role, content) pairs in order
ApiMessages(conv) ==
    [i \in 1 .. Len(conv.messages) |->
        <<ApiRole(conv.messages[i].role), conv.messages[i].content>>]

---------------------------------------------------------------------------
(* config.rs: the configuration snapshot and the credentials *)

DefaultConfig ==
    [whisper |-> [model |-> "whisper-1"],
     openwebui |-> [model |-> "llama3.2",
                    max_context_length |-> DefaultMaxContextLength,
                    stream |-> FALSE],
     elevenlabs |-> [voice_id |-> "21m00Tcm4TlvDq8ikWAM",
                     voice_settings |-> "default"]]

StreamingConfig == [DefaultConfig EXCEPT !.openwebui.stream = TRUE]

Configs == {DefaultConfig, StreamingConfig}

ApiKeys(w, o, e) == [whisper |-> w, openwebui |-> o, elevenlabs |-> e]

NoKeys == ApiKeys(None, None, None)

AllKeys == ApiKeys(Some("wk"), Some("ok"), Some("ek"))

KeySets == {NoKeys, AllKeys}

---------------------------------------------------------------------------
(* The services' answers to one request *)

Detail(text, code) == [text |-> text, code |-> code]

NoDetail == Detail("", 0)

Transport(timeout) == [t |-> "transport", timeout |-> timeout]

Http(code, body) == [t |-> "http", code |-> code, body |-> body]

\* {"error": {"message": ..}}: WhisperErrorResponse, OpenWebUiErrorResponse
ErrorJson == [message |-> "boom", b |-> "error_json"]

\* {"detail": ..}: ElevenLabsErrorResponse
DetailJson == [message |-> "boom", b |-> "detail_json"]

\* a body that is empty or is no JSON of the expected shape
Garbage == [b |-> "garbage"]

Payload(v) == [b |-> "payload", value |-> v]

\* StatusCode::is_success
IsSuccess(code) == code >= 200 /\ code <= 299

ErrorCodes == {401, 403, 404, 429, 402, 500}

ErrorBodies(svc) == {Garbage, IF svc = "elevenlabs" THEN DetailJson ELSE ErrorJson}

SuccessBodies(svc) ==
    {Garbage} \cup
    CASE svc = "whisper" -> {Payload(t) : t \in Transcripts}
      [] svc = "openwebui" -> {Payload(<<>>)} \cup {Payload(<<r>>) : r \in Replies}
      [] svc = "elevenlabs" -> {Payload(a) : a \in AudioOuts}

\* every answer a request to svc can get
Responses(svc) ==
    {Transport(b) : b \in BOOLEAN}
    \cup {Http(c, b) : c \in ErrorCodes, b \in ErrorBodies(svc)}
    \cup {Http(200, b) : b \in SuccessBodies(svc)}

---------------------------------------------------------------------------
(* api/*.rs: client construction and one attempt *)

InitFailedKind(svc) ==
    CASE svc = "whisper" -> "TranscriptionFailed"
      [] svc = "openwebui" -> "MessageSendFailed"
      [] svc = "elevenlabs" -> "SynthesisFailed"

\* WhisperClient::new, OpenWebUiClient::new, ElevenLabsClient::new;
\* built: whether reqwest's builder could build the transport
NewClient(svc, cfg, key, built) ==
    IF built
    THEN Ok([config |-> cfg, svc |-> svc, api_key |-> key])
    ELSE Err(Error(svc, InitFailedKind(svc), Detail("builder error", 0)))

\* WhisperClient::try_transcribe on the answer resp
try_transcribe(client, resp) ==
    IF resp.t = "transport"
    THEN IF resp.timeout
         THEN Err(Error("whisper", "Timeout", NoDetail))
         ELSE Err(Error("whisper", "TranscriptionFailed", Detail("transport", 0)))
    ELSE IF ~IsSuccess(resp.code)
    THEN IF resp.body.b = "error_json"
         THEN CASE resp.code \in {401, 403} ->
                     Err(Error("whisper", "AuthenticationFailed", NoDetail))
                [] resp.code = 429 ->
                     Err(Error("whisper", "RateLimitExceeded", NoDetail))
                [] OTHER ->
                     Err(Error("whisper", "TranscriptionFailed",
                               Detail(resp.body.message, 0)))
         ELSE Err(Error("whisper", "TranscriptionFailed", Detail("HTTP", resp.code)))
    ELSE IF resp.body.b # "payload"
    THEN Err(Error("whisper", "TranscriptionFailed", Detail("parse", 0)))
    ELSE IF TrimIsEmpty(resp.body.value)
    THEN Err(Error("whisper", "EmptyResponse", NoDetail))
    ELSE Ok(resp.body.value)

\* OpenWebUiClient::try_send_message on the answer resp
try_send_message(client, resp) ==
    IF resp.t = "transport"
    THEN IF resp.timeout
         THEN Err(Error("openwebui", "Timeout", NoDetail))
         ELSE Err(Error("openwebui", "MessageSendFailed", Detail("transport", 0)))
    ELSE IF ~IsSuccess(resp.code)
    THEN IF resp.body.b = "error_json"
         THEN CASE resp.code \in {401, 403} ->
                     Err(Error("openwebui", "AuthenticationFailed", NoDetail))
                [] resp.code = 404 ->
                     Err(Error("openwebui", "ModelNotFound",
                               Detail(client.config.model, 0)))
                [] resp.code = 429 ->
                     Err(Error("openwebui", "RateLimitExceeded", NoDetail))
                [] OTHER ->
                     Err(Error("openwebui", "MessageSendFailed",
                               Detail(resp.body.message, 0)))
         ELSE Err(Error("openwebui", "MessageSendFailed", Detail("HTTP", resp.code)))
    ELSE IF client.config.stream
    THEN Err(Error("openwebui", "StreamingNotSupported", NoDetail))
    ELSE IF resp.body.b # "payload"
    THEN Err(Error("openwebui", "ResponseParseFailed", Detail("parse", 0)))
    ELSE IF Len(resp.body.value) > 0
    THEN Ok(resp.body.value[1])
    ELSE Err(Error("openwebui", "ResponseParseFailed",
                   Detail("No choices in response", 0)))

\* ElevenLabsClient::try_synthesize_speech on the answer resp (no request
\* is sent, and resp is not read, when the client holds no api_key)
try_synthesize_speech(client, resp) ==
    IF client.api_key = None
    THEN Err(Error("elevenlabs", "AuthenticationFailed", NoDetail))
    ELSE IF resp.t = "transport"
    THEN IF resp.timeout
         THEN Err(Error("elevenlabs", "Timeout", NoDetail))
         ELSE Err(Error("elevenlabs", "SynthesisFailed", Detail("transport", 0)))
    ELSE IF ~IsSuccess(resp.code)
    THEN CASE resp.code \in {401, 403} ->
                Err(Error("elevenlabs", "AuthenticationFailed", NoDetail))
           [] resp.code = 404 ->
                Err(Error("elevenlabs", "VoiceNotFound",
                          Detail(client.config.voice_id, 0)))
           [] resp.code = 429 ->
                Err(Error("elevenlabs", "RateLimitExceeded", NoDetail))
           [] resp.code = 402 ->
                Err(Error("elevenlabs", "QuotaExceeded", NoDetail))
           [] OTHER ->
                IF resp.body.b = "detail_json"
                THEN Err(Error("elevenlabs", "SynthesisFailed",
                               Detail(resp.body.message, 0)))
                ELSE Err(Error("elevenlabs", "SynthesisFailed",
                               Detail("HTTP", resp.code)))
    ELSE IF resp.body.b # "payload"
    THEN Err(Error("elevenlabs", "SynthesisFailed", Detail("body", 0)))
    ELSE Ok(resp.body.value)

TryOnceNeverStreams(client, resp) ==
    CASE client.svc = "whisper" -> try_transcribe(client, resp)
      [] client.svc = "openwebui" ->
            try_send_message([client EXCEPT !.config.stream = FALSE], resp)
      [] client.svc = "elevenlabs" -> try_synthesize_speech(client, resp)

\* one attempt of the client's primary operation
TryOnce(client, resp) ==
    CASE client.svc = "whisper" -> try_transcribe(client, resp)
      [] client.svc = "openwebui" -> try_send_message(client, resp)
      [] client.svc = "elevenlabs" -> try_synthesize_speech(client, resp)

\* whether an attempt sends a request at all
SendsRequest(client) == ~(client.svc = "elevenlabs" /\ client.api_key = None)

---------------------------------------------------------------------------
(* api/*.rs: the primary operation: validation, then the retry loop *)

RECURSIVE SumLen(_)
\* chat_messages.iter().map(|m| m.content.len()).sum()
SumLen(messages) ==
    IF Len(messages) = 0 THEN 0
    ELSE messages[1][2].len + SumLen(Tail(messages))

\* the check each primary operation makes before its loop
Validate(client, input) ==
    CASE client.svc = "whisper" ->
            IF input.len > MAX_SIZE
            THEN Err(Error("whisper", "AudioFileTooLarge", NoDetail))
            ELSE Ok(input)
      [] client.svc = "openwebui" ->
            IF SumLen(input) > client.config.max_context_length
            THEN Err(Error("openwebui", "ContextLimitExceeded", NoDetail))
            ELSE Ok(input)
      [] client.svc = "elevenlabs" ->
            IF input.len > MAX_CHARS
            THEN Err(Error("elevenlabs", "CharacterLimitExceeded", NoDetail))
            ELSE Ok(input)

AttemptEv(n, out, sent) == [n |-> n, out |-> out, sent |-> sent, ev |-> "attempt"]

WaitEv(secs) == [n |-> secs, out |-> None, sent |-> FALSE, ev |-> "wait"]

NoFrame ==
    [client |-> None, input |-> None, phase |-> "none", attempt |-> 0,
     last_error |-> None, delay |-> 0, result |-> None, log |-> <<>>,
     answer |-> None]

EnterUnchecked(client, input) ==
    [NoFrame EXCEPT !.phase = "try", !.client = client, !.input = input,
                    !.attempt = 1]

\* transcribe_audio / send_message / synthesize_speech up to the first request
Enter(client, input) ==
    IF IsErr(Validate(client, input))
    THEN [NoFrame EXCEPT !.phase = "returned", !.client = client, !.input = input,
                         !.result = Validate(client, input)]
    ELSE [NoFrame EXCEPT !.phase = "try", !.client = client, !.input = input,
                         !.attempt = 1]

RememberFirst(last_error, e) == IF last_error = None THEN Some(e) ELSE last_error

\* last_error = Some(e)
Remember(last_error, e) == Some(e)

BackoffFromTwo(attempt) == 2 ^ attempt

\* Duration::from_secs(2u64.pow(attempt as u32 - 1))
Backoff(attempt) == 2 ^ (attempt - 1)

RetriesOnceMore(attempt) == attempt <= max_retries

RetriesNever(attempt) == FALSE

\* if attempt < max_retries: another iteration follows, after a sleep
Retries(attempt) == attempt < max_retries

\* one iteration of `for attempt in 1..=max_retries` on the answer resp;
\* answer remembers what the request of this iteration got, if one was sent
Iterate(f, resp) ==
    LET out == TryOnce(f.client, resp)
        ev  == AttemptEv(f.attempt, out, SendsRequest(f.client))
        got == IF SendsRequest(f.client) THEN Some(resp) ELSE None
    IN  IF IsOk(out)
        THEN [f EXCEPT !.phase = "returned", !.result = Ok(out.v),
                       !.log = Append(@, ev), !.answer = got]
        ELSE LET last == Remember(f.last_error, out.e)
             IN  IF Retries(f.attempt)
                 THEN [f EXCEPT !.phase = "sleep", !.last_error = last,
                                !.delay = Backoff(f.attempt),
                                !.log = Append(@, ev) \o <<WaitEv(Backoff(f.attempt))>>,
                                !.answer = got]
                 ELSE [f EXCEPT !.phase = "returned", !.last_error = last,
                                !.result = Err(last.v),
                                !.log = Append(@, ev), !.answer = got]

\* the answers the attempt of frame f can get out of resps
Answers(f, resps) ==
    IF SendsRequest(f.client) THEN resps ELSE {Transport(FALSE)}

\* the request of task t's current attempt is answered (or, with no request,
\* the attempt returns at once)
Attempt(t, resps) ==
    /\ call[t].phase = "try"
    /\ \E resp \in Answers(call[t], resps) :
          call' = [call EXCEPT ![t] = Iterate(call[t], resp)]
    /\ UNCHANGED <<shared, lock, pc, loc, runs>>

WakeRestarts(t) ==
    /\ call[t].phase = "sleep"
    /\ call' = [call EXCEPT ![t] = EnterUnchecked(call[t].client, call[t].input)]
    /\ UNCHANGED <<shared, lock, pc, loc, runs>>

\* tokio::time::sleep(delay) of task t ends: the next iteration starts
Wake(t) ==
    /\ call[t].phase = "sleep"
    /\ call' = [call EXCEPT ![t].phase = "try", ![t].attempt = @ + 1,
                            ![t].delay = 0, ![t].answer = None]
    /\ UNCHANGED <<shared, lock, pc, loc, runs>>

---------------------------------------------------------------------------
(* commands.rs: process_voice_query *)

NoLocals ==
    [config |-> None, api_keys |-> None, messages |-> None, text |-> None,
     client |-> None, cmd |-> "none", audio |-> None, transcription |-> None,
     llm_response |-> None, ret |-> None, used |-> {},
     outcome |-> [svc \in Services |-> None],
     service |-> "none",
     probe |-> [svc \in Services |-> None],
     statuses |-> [svc \in Services |-> None],
     arg |-> None]

\* VoiceQueryResponse
VoiceQueryResponse(t, r, a) ==
    [transcription |-> t, llm_response |-> r, audio_response |-> a]

\* whether task t can take a new invocation
Free(t) == pc[t] \in {"idle", "done"} /\ runs < MaxRuns

\* the command returns value v, Ok(..) or Err(e.to_string()), out of the
\* client operation of service svc ("none": out of no client operation)
Return(t, svc, v) ==
    /\ pc' = [pc EXCEPT ![t] = "done"]
    /\ loc' = [loc EXCEPT ![t].ret = v,
                          ![t].outcome =
                              IF svc = "none" THEN @
                              ELSE [@ EXCEPT ![svc] = call[t].result]]
    /\ call' = [call EXCEPT ![t] = NoFrame]

CriticalKept(t) == lock \in {"free", t} /\ lock' = t

\* let state = self.inner.lock().unwrap() .. end of the method: the mutex is
\* free, or task t has taken it in its Lock step, and the guard is dropped
\* when the method returns
Critical(t) == lock \in {"free", t} /\ lock' = "free"

SetStatusSkipped(s) == UNCHANGED status

SetStatusResets(s) == status' = IF s.tag = "Error" THEN Idle ELSE s

SetStatusKeepsError(s) == status' = IF status.tag = "Error" THEN status ELSE s

SetStatusSticky(s) ==
    status' = IF status.tag = "Error" /\ s \in InProgress THEN status ELSE s

\* AppState::set_status
SetStatus(s) == status' = s

\* AppState::add_message
AddMessage(role, content) ==
    /\ conversation' = Pushed(conversation, role, content)
    /\ appended' = Append(appended, Message(role, content))

\* line 154: the invocation arrives and sets the status
PvqStart(t, audio) ==
    /\ Free(t)
    /\ Critical(t)
    /\ SetStatus(Transcribing)
    /\ pc' = [pc EXCEPT ![t] = "pvq_get_config"]
    /\ loc' = [loc EXCEPT ![t] = [NoLocals EXCEPT !.cmd = "process_voice_query",
                                                  !.audio = audio]]
    /\ call' = [call EXCEPT ![t] = NoFrame]
    /\ runs' = runs + 1
    /\ UNCHANGED <<conversation, config, api_keys, host, connectivity, issued,
                   appended>>

\* line 155: let config = state.get_config()
PvqGetConfig(t) ==
    /\ pc[t] = "pvq_get_config"
    /\ Critical(t)
    /\ loc' = [loc EXCEPT ![t].config = config]
    /\ pc' = [pc EXCEPT ![t] = "pvq_get_api_keys"]
    /\ UNCHANGED <<shared, call, runs>>

\* line 156: let api_keys = state.get_api_keys()
PvqGetApiKeys(t) ==
    /\ pc[t] = "pvq_get_api_keys"
    /\ Critical(t)
    /\ loc' = [loc EXCEPT ![t].api_keys = api_keys]
    /\ pc' = [pc EXCEPT ![t] = "pvq_whisper"]
    /\ UNCHANGED <<shared, call, runs>>

\* lines 158-163: WhisperClient::new(..)?, then transcribe_audio is entered
PvqTranscribe(t) ==
    /\ pc[t] = "pvq_whisper"
    /\ \E built \in BOOLEAN :
         LET c == NewClient("whisper", loc[t].config.whisper,
                            loc[t].api_keys.whisper, built)
         IN  IF IsErr(c)
             THEN Return(t, "none", Err(to_string(c.e)))
             ELSE /\ call' = [call EXCEPT ![t] = Enter(c.v, loc[t].audio)]
                  /\ loc' = [loc EXCEPT ![t].used = @ \cup {"whisper"}]
                  /\ pc' = [pc EXCEPT ![t] = "pvq_transcribing"]
    /\ UNCHANGED <<shared, lock, runs>>

\* lines 163-174: transcribe_audio has returned; map_err sets the status and
\* `?` returns, or the status becomes Thinking
PvqTranscribed(t) ==
    /\ pc[t] = "pvq_transcribing"
    /\ call[t].phase = "returned"
    /\ Critical(t)
    /\ IF IsErr(call[t].result)
       THEN /\ SetStatus(StatusError(to_string(call[t].result.e)))
            /\ Return(t, "whisper", Err(to_string(call[t].result.e)))
       ELSE /\ SetStatus(Thinking)
            /\ loc' = [loc EXCEPT ![t].transcription = call[t].result.v,
                                  ![t].outcome["whisper"] = call[t].result]
            /\ pc' = [pc EXCEPT ![t] = "pvq_add_user"]
            /\ call' = [call EXCEPT ![t] = NoFrame]
    /\ UNCHANGED <<conversation, config, api_keys, host, connectivity, issued,
                   appended, runs>>

\* line 175: state.add_message(MessageRole::User, transcription.clone())
PvqAddUser(t) ==
    /\ pc[t] = "pvq_add_user"
    /\ Critical(t)
    /\ AddMessage(User, loc[t].transcription)
    /\ pc' = [pc EXCEPT ![t] = "pvq_openwebui"]
    /\ UNCHANGED <<status, config, api_keys, host, connectivity, issued, loc,
                   call, runs>>

\* lines 177-178: OpenWebUiClient::new(..)?
PvqNewChatClient(t) ==
    /\ pc[t] = "pvq_openwebui"
    /\ \E built \in BOOLEAN :
         LET c == NewClient("openwebui", loc[t].config.openwebui,
                            loc[t].api_keys.openwebui, built)
         IN  IF IsErr(c)
             THEN Return(t, "none", Err(to_string(c.e)))
             ELSE /\ pc' = [pc EXCEPT ![t] = "pvq_get_api_messages"]
                  /\ UNCHANGED <<loc, call>>
    /\ UNCHANGED <<shared, lock, runs>>

\* lines 180-183: let messages = state.get_api_messages(), then send_message
\* is entered
PvqChat(t) ==
    /\ pc[t] = "pvq_get_api_messages"
    /\ Critical(t)
    /\ LET c == NewClient("openwebui", loc[t].config.openwebui,
                          loc[t].api_keys.openwebui, TRUE).v
           messages == ApiMessages(conversation)
       IN  /\ call' = [call EXCEPT ![t] = Enter(c, messages)]
           /\ loc' = [loc EXCEPT ![t].messages = messages,
                                 ![t].used = @ \cup {"openwebui"}]
    /\ pc' = [pc EXCEPT ![t] = "pvq_thinking"]
    /\ UNCHANGED <<shared, runs>>

\* lines 183-192: send_message has returned; map_err sets the status and `?`
\* returns, or the reply is appended
PvqChatted(t) ==
    /\ pc[t] = "pvq_thinking"
    /\ call[t].phase = "returned"
    /\ Critical(t)
    /\ IF IsErr(call[t].result)
       THEN /\ SetStatus(StatusError(to_string(call[t].result.e)))
            /\ Return(t, "openwebui", Err(to_string(call[t].result.e)))
            /\ UNCHANGED <<conversation, appended>>
       ELSE /\ AddMessage(Assistant, call[t].result.v)
            /\ loc' = [loc EXCEPT ![t].llm_response = call[t].result.v,
                                  ![t].outcome["openwebui"] = call[t].result]
            /\ pc' = [pc EXCEPT ![t] = "pvq_set_speaking"]
            /\ call' = [call EXCEPT ![t] = NoFrame]
            /\ UNCHANGED status
    /\ UNCHANGED <<config, api_keys, host, connectivity, issued, runs>>

\* line 195: state.set_status(AppStatus::Speaking)
PvqSetSpeaking(t) ==
    /\ pc[t] = "pvq_set_speaking"
    /\ Critical(t)
    /\ SetStatus(Speaking)
    /\ pc' = [pc EXCEPT ![t] = "pvq_elevenlabs"]
    /\ UNCHANGED <<conversation, config, api_keys, host, connectivity, issued,
                   appended, loc, call, runs>>

PvqSpeechRereads(t) ==
    /\ pc[t] = "pvq_elevenlabs"
    /\ \E built \in BOOLEAN :
         LET c == NewClient("elevenlabs", config.elevenlabs,
                            api_keys.elevenlabs, built)
         IN  IF IsErr(c)
             THEN Return(t, "none", Err(to_string(c.e)))
             ELSE /\ call' = [call EXCEPT ![t] = Enter(c.v, loc[t].llm_response)]
                  /\ loc' = [loc EXCEPT ![t].used = @ \cup {"elevenlabs"}]
                  /\ pc' = [pc EXCEPT ![t] = "pvq_speaking"]
    /\ UNCHANGED <<shared, lock, runs>>

\* lines 196-200: ElevenLabsClient::new(..)?, then synthesize_speech is entered
PvqSpeech(t) ==
    /\ pc[t] = "pvq_elevenlabs"
    /\ \E built \in BOOLEAN :
         LET c == NewClient("elevenlabs", loc[t].config.elevenlabs,
                            loc[t].api_keys.elevenlabs, built)
         IN  IF IsErr(c)
             THEN Return(t, "none", Err(to_string(c.e)))
             ELSE /\ call' = [call EXCEPT ![t] = Enter(c.v, loc[t].llm_response)]
                  /\ loc' = [loc EXCEPT ![t].used = @ \cup {"elevenlabs"}]
                  /\ pc' = [pc EXCEPT ![t] = "pvq_speaking"]
    /\ UNCHANGED <<shared, lock, runs>>

\* lines 201-218: synthesize_speech has returned; map_err sets the status and
\* `?` returns, or the status becomes Idle and the composite is returned
PvqSpoke(t) ==
    /\ pc[t] = "pvq_speaking"
    /\ call[t].phase = "returned"
    /\ Critical(t)
    /\ IF IsErr(call[t].result)
       THEN /\ SetStatus(StatusError(to_string(call[t].result.e)))
            /\ Return(t, "elevenlabs", Err(to_string(call[t].result.e)))
       ELSE /\ SetStatus(Idle)
            /\ Return(t, "elevenlabs",
                      Ok(VoiceQueryResponse(loc[t].transcription,
                                            loc[t].llm_response,
                                            call[t].result.v)))
    /\ UNCHANGED <<conversation, config, api_keys, host, connectivity, issued,
                   appended, runs>>

\* process_voice_query of task t after its first line
Pvq(t) ==
    \/ PvqGetConfig(t)
    \/ PvqGetApiKeys(t)
    \/ PvqTranscribe(t)
    \/ PvqTranscribed(t)
    \/ PvqAddUser(t)
    \/ PvqNewChatClient(t)
    \/ PvqChat(t)
    \/ PvqChatted(t)
    \/ PvqSetSpeaking(t)
    \/ PvqSpeech(t)
    \/ PvqSpoke(t)

---------------------------------------------------------------------------
(* commands.rs: the steps the standalone commands share *)

\* let config = state.get_config()
GetConfig(t, at, next) ==
    /\ pc[t] = at
    /\ Critical(t)
    /\ loc' = [loc EXCEPT ![t].config = config]
    /\ pc' = [pc EXCEPT ![t] = next]
    /\ UNCHANGED <<shared, call, runs>>

\* let api_keys = state.get_api_keys()
GetApiKeys(t, at, next) ==
    /\ pc[t] = at
    /\ Critical(t)
    /\ loc' = [loc EXCEPT ![t].api_keys = api_keys]
    /\ pc' = [pc EXCEPT ![t] = next]
    /\ UNCHANGED <<shared, call, runs>>

NewAndEnterSetsError(t, at, svc, input, next) ==
    /\ pc[t] = at
    /\ \E built \in BOOLEAN :
         LET c == NewClient(svc, loc[t].config[svc], loc[t].api_keys[svc], built)
         IN  IF IsErr(c)
             THEN /\ SetStatus(StatusError(to_string(c.e)))
                  /\ Return(t, "none", Err(to_string(c.e)))
             ELSE /\ call' = [call EXCEPT ![t] = Enter(c.v, input)]
                  /\ loc' = [loc EXCEPT ![t].used = @ \cup {svc}]
                  /\ pc' = [pc EXCEPT ![t] = next]
                  /\ UNCHANGED status
    /\ UNCHANGED <<conversation, config, api_keys, connectivity, issued,
                   appended, host, lock, runs>>

\* XClient::new(config.x, api_keys.x).map_err(|e| e.to_string())?, then the
\* client's primary operation is entered with input
NewAndEnter(t, at, svc, input, next) ==
    /\ pc[t] = at
    /\ \E built \in BOOLEAN :
         LET c == NewClient(svc, loc[t].config[svc], loc[t].api_keys[svc], built)
         IN  IF IsErr(c)
             THEN Return(t, "none", Err(to_string(c.e)))
             ELSE /\ call' = [call EXCEPT ![t] = Enter(c.v, input)]
                  /\ loc' = [loc EXCEPT ![t].used = @ \cup {svc}]
                  /\ pc' = [pc EXCEPT ![t] = next]
    /\ UNCHANGED <<shared, lock, runs>>

ResetStatusOnSuccess(t, at, svc, ok, failed) ==
    /\ pc[t] = at
    /\ call[t].phase = "returned"
    /\ Critical(t)
    /\ IF IsErr(call[t].result)
       THEN /\ pc' = [pc EXCEPT ![t] = failed]
            /\ UNCHANGED <<status, loc, call>>
       ELSE /\ SetStatus(Idle)
            /\ IF ok = "done"
               THEN Return(t, svc, Ok(call[t].result.v))
               ELSE /\ pc' = [pc EXCEPT ![t] = ok]
                    /\ UNCHANGED <<loc, call>>
    /\ UNCHANGED <<conversation, config, api_keys, host, connectivity, issued,
                   appended, runs>>

\* "Reset status": state.set_status(AppStatus::Idle) once the primary
\* operation has returned; Ok(v) is then returned at once (process_audio,
\* synthesize_speech) or the command goes on to ok, and Err goes on to failed
ResetStatus(t, at, svc, ok, failed) ==
    /\ pc[t] = at
    /\ call[t].phase = "returned"
    /\ Critical(t)
    /\ SetStatus(Idle)
    /\ IF IsErr(call[t].result)
       THEN /\ pc' = [pc EXCEPT ![t] = failed]
            /\ UNCHANGED <<loc, call>>
       ELSE IF ok = "done"
       THEN Return(t, svc, Ok(call[t].result.v))
       ELSE /\ pc' = [pc EXCEPT ![t] = ok]
            /\ UNCHANGED <<loc, call>>
    /\ UNCHANGED <<conversation, config, api_keys, host, connectivity, issued,
                   appended, runs>>

ReturnWithoutError(t, at, svc) ==
    /\ pc[t] = at
    /\ Critical(t)
    /\ Return(t, svc, Err(to_string(call[t].result.e)))
    /\ UNCHANGED <<status, conversation, config, api_keys, host, connectivity,
                   issued, appended, runs>>

\* Err(e) => { state.set_status(AppStatus::Error { message: e.to_string() });
\* Err(e.to_string()) }
SetErrorAndReturn(t, at, svc) ==
    /\ pc[t] = at
    /\ Critical(t)
    /\ SetStatus(StatusError(to_string(call[t].result.e)))
    /\ Return(t, svc, Err(to_string(call[t].result.e)))
    /\ UNCHANGED <<conversation, config, api_keys, host, connectivity, issued,
                   appended, runs>>

\* the first line of a standalone command: state.set_status(busy)
StartCommand(t, cmd, busy, next, locals) ==
    /\ Free(t)
    /\ Critical(t)
    /\ SetStatus(busy)
    /\ pc' = [pc EXCEPT ![t] = next]
    /\ loc' = [loc EXCEPT ![t] = [locals EXCEPT !.cmd = cmd]]
    /\ call' = [call EXCEPT ![t] = NoFrame]
    /\ runs' = runs + 1
    /\ UNCHANGED <<conversation, config, api_keys, host, connectivity, issued,
                   appended>>

---------------------------------------------------------------------------
(* commands.rs: process_audio *)

\* line 23: state.set_status(AppStatus::Transcribing)
PaStart(t, audio) ==
    StartCommand(t, "process_audio", Transcribing, "pa_get_config",
                 [NoLocals EXCEPT !.audio = audio])

\* line 26: let config = state.get_config()
PaGetConfig(t) == GetConfig(t, "pa_get_config", "pa_get_api_keys")

\* line 27: let api_keys = state.get_api_keys()
PaGetApiKeys(t) == GetApiKeys(t, "pa_get_api_keys", "pa_whisper")

\* lines 30-36
PaTranscribe(t) ==
    NewAndEnter(t, "pa_whisper", "whisper", loc[t].audio, "pa_transcribing")

\* lines 39-45: set_status(Idle), then Ok(text) is returned
PaReset(t) == ResetStatus(t, "pa_transcribing", "whisper", "done", "pa_failed")

\* lines 46-52: set_status(Error), then Err is returned
PaFailed(t) == SetErrorAndReturn(t, "pa_failed", "whisper")

ProcessAudio(t) ==
    \/ PaGetConfig(t)
    \/ PaGetApiKeys(t)
    \/ PaTranscribe(t)
    \/ PaReset(t)
    \/ PaFailed(t)

---------------------------------------------------------------------------
(* commands.rs: send_message *)

\* line 65: state.set_status(AppStatus::Thinking)
SmStart(t, message) ==
    StartCommand(t, "send_message", Thinking, "sm_add_user",
                 [NoLocals EXCEPT !.text = message])

\* line 68: state.add_message(MessageRole::User, message.clone())
SmAddUser(t) ==
    /\ pc[t] = "sm_add_user"
    /\ Critical(t)
    /\ AddMessage(User, loc[t].text)
    /\ pc' = [pc EXCEPT ![t] = "sm_get_config"]
    /\ UNCHANGED <<status, config, api_keys, host, connectivity, issued, loc,
                   call, runs>>

\* line 71
SmGetConfig(t) == GetConfig(t, "sm_get_config", "sm_get_api_keys")

\* line 72
SmGetApiKeys(t) == GetApiKeys(t, "sm_get_api_keys", "sm_openwebui")

\* lines 75-76: OpenWebUiClient::new(..)?
SmNewClient(t) ==
    /\ pc[t] = "sm_openwebui"
    /\ \E built \in BOOLEAN :
         LET c == NewClient("openwebui", loc[t].config.openwebui,
                            loc[t].api_keys.openwebui, built)
         IN  IF IsErr(c)
             THEN Return(t, "none", Err(to_string(c.e)))
             ELSE /\ pc' = [pc EXCEPT ![t] = "sm_get_api_messages"]
                  /\ loc' = [loc EXCEPT ![t].client = Some(c.v)]
                  /\ UNCHANGED call
    /\ UNCHANGED <<shared, lock, runs>>

\* lines 79-82: let messages = state.get_api_messages(), then the client's
\* send_message is entered
SmSend(t) ==
    /\ pc[t] = "sm_get_api_messages"
    /\ Critical(t)
    /\ LET messages == ApiMessages(conversation)
       IN  /\ call' = [call EXCEPT ![t] = Enter(loc[t].client.v, messages)]
           /\ loc' = [loc EXCEPT ![t].messages = messages,
                                 ![t].used = @ \cup {"openwebui"}]
    /\ pc' = [pc EXCEPT ![t] = "sm_thinking"]
    /\ UNCHANGED <<shared, runs>>

\* lines 85-87: set_status(Idle)
SmReset(t) ==
    ResetStatus(t, "sm_thinking", "openwebui", "sm_add_assistant", "sm_failed")

\* lines 88-93: state.add_message(MessageRole::Assistant, response.clone())
SmAddAssistant(t) ==
    /\ pc[t] = "sm_add_assistant"
    /\ Critical(t)
    /\ AddMessage(Assistant, call[t].result.v)
    /\ Return(t, "openwebui", Ok(call[t].result.v))
    /\ UNCHANGED <<status, config, api_keys, host, connectivity, issued, runs>>

\* lines 94-100
SmFailed(t) == SetErrorAndReturn(t, "sm_failed", "openwebui")

SendMessage(t) ==
    \/ SmAddUser(t)
    \/ SmGetConfig(t)
    \/ SmGetApiKeys(t)
    \/ SmNewClient(t)
    \/ SmSend(t)
    \/ SmReset(t)
    \/ SmAddAssistant(t)
    \/ SmFailed(t)

---------------------------------------------------------------------------
(* commands.rs: synthesize_speech *)

\* line 113: state.set_status(AppStatus::Speaking)
SsStart(t, text) ==
    StartCommand(t, "synthesize_speech", Speaking, "ss_get_config",
                 [NoLocals EXCEPT !.text = text])

\* line 116
SsGetConfig(t) == GetConfig(t, "ss_get_config", "ss_get_api_keys")

\* line 117
SsGetApiKeys(t) == GetApiKeys(t, "ss_get_api_keys", "ss_elevenlabs")

\* lines 120-124
SsSynthesize(t) ==
    NewAndEnter(t, "ss_elevenlabs", "elevenlabs", loc[t].text, "ss_speaking")

\* lines 127-133
SsReset(t) == ResetStatus(t, "ss_speaking", "elevenlabs", "done", "ss_failed")

\* lines 134-140
SsFailed(t) == SetErrorAndReturn(t, "ss_failed", "elevenlabs")

SynthesizeSpeech(t) ==
    \/ SsGetConfig(t)
    \/ SsGetApiKeys(t)
    \/ SsSynthesize(t)
    \/ SsReset(t)
    \/ SsFailed(t)

---------------------------------------------------------------------------
(* api/*.rs and commands.rs: check_connectivity *)

ProbeSendsAlways(client) == TRUE

\* whether the client's probe sends a request at all (ElevenLabsClient's
\* returns Ok(false) at once when it holds no api_key)
ProbeSends(client) == ~(client.svc = "elevenlabs" /\ client.api_key = None)

client_check_propagates(client, resp) ==
    IF resp.t = "transport"
    THEN Err(Error(client.svc, "Timeout", NoDetail))
    ELSE Ok(resp.code < 500)

\* WhisperClient / OpenWebUiClient / ElevenLabsClient ::check_connectivity on
\* the answer resp to the probe's request
client_check_connectivity(client, resp) ==
    CASE client.svc = "whisper" ->
            IF resp.t = "http" THEN Ok(resp.code < 500) ELSE Ok(FALSE)
      [] client.svc = "openwebui" ->
            IF resp.t = "http"
            THEN Ok(resp.code < 500 /\ resp.code # 404)
            ELSE Ok(FALSE)
      [] client.svc = "elevenlabs" ->
            IF client.api_key = None THEN Ok(FALSE)
            ELSE IF resp.t = "http" THEN Ok(resp.code < 500) ELSE Ok(FALSE)

\* the text "Service unreachable", in the shape of e.to_string()'s texts
ServiceUnreachable == <<"Service unreachable", "", NoDetail>>

\* match client.check_connectivity().await { Ok(true) => .., Ok(false) => ..,
\* Err(e) => .. }
ServiceStatusOf(r) ==
    IF IsErr(r) THEN Disconnected(to_string(r.e))
    ELSE IF r.v THEN Connected
    ELSE Disconnected(ServiceUnreachable)

UpdateKeepsChecking(conn, service, st) ==
    IF st.tag = "Disconnected" THEN [conn EXCEPT !.last_checked = Now]
    ELSE [conn EXCEPT ![service] = st, !.last_checked = Now]

UpdateAllServices(conn, service, st) ==
    [whisper |-> st, openwebui |-> st, elevenlabs |-> st, last_checked |-> Now]

\* AppState::update_service_status on a connectivity value
UpdateServiceStatus(conn, service, st) ==
    IF service \in Services
    THEN [conn EXCEPT ![service] = st, !.last_checked = Now]
    ELSE [conn EXCEPT !.last_checked = Now]

\* ConnectivityResponse
ConnectivityResponse(w, o, e) == [whisper |-> w, openwebui |-> o, elevenlabs |-> e]

\* the order in which check_connectivity goes through the services
NextService(svc) ==
    CASE svc = "whisper" -> "openwebui"
      [] svc = "openwebui" -> "elevenlabs"
      [] svc = "elevenlabs" -> "none"

\* the codes a probe's request can be answered with
ProbeCodes == {200, 401, 404, 500}

\* every answer a probe's request can get
ProbeResponses == {Transport(b) : b \in BOOLEAN} \cup {Http(c, Garbage) : c \in ProbeCodes}

\* line 289: let config = state.get_config()
CcStart(t) ==
    /\ Free(t)
    /\ Critical(t)
    /\ pc' = [pc EXCEPT ![t] = "cc_get_api_keys"]
    /\ loc' = [loc EXCEPT ![t] = [NoLocals EXCEPT !.cmd = "check_connectivity",
                                                  !.config = config,
                                                  !.service = "whisper"]]
    /\ call' = [call EXCEPT ![t] = NoFrame]
    /\ runs' = runs + 1
    /\ UNCHANGED shared

\* line 290
CcGetApiKeys(t) == GetApiKeys(t, "cc_get_api_keys", "cc_checking")

\* lines 293, 313, 333: state.update_service_status(svc, ServiceStatus::Checking)
CcSetChecking(t) ==
    /\ pc[t] = "cc_checking"
    /\ Critical(t)
    /\ connectivity' = UpdateServiceStatus(connectivity, loc[t].service, Checking)
    /\ pc' = [pc EXCEPT ![t] = "cc_new_client"]
    /\ UNCHANGED <<status, conversation, config, api_keys, host, issued,
                   appended, loc, call, runs>>

\* lines 294-296, 314-316, 334-336: match XClient::new(..): Err(e) is
\* Disconnected, Ok(client) starts the probe (which answers at once when it
\* sends no request)
CcNewClient(t) ==
    /\ pc[t] = "cc_new_client"
    /\ \E built \in BOOLEAN :
         LET svc == loc[t].service
             c == NewClient(svc, loc[t].config[svc], loc[t].api_keys[svc], built)
         IN  IF IsErr(c)
             THEN /\ loc' = [loc EXCEPT ![t].statuses[svc] =
                                           Some(Disconnected(to_string(c.e)))]
                  /\ pc' = [pc EXCEPT ![t] = "cc_store"]
             ELSE IF ~ProbeSends(c.v)
             THEN /\ loc' = [loc EXCEPT ![t].statuses[svc] =
                       Some(ServiceStatusOf(
                               client_check_connectivity(c.v, Transport(FALSE))))]
                  /\ pc' = [pc EXCEPT ![t] = "cc_store"]
             ELSE /\ loc' = [loc EXCEPT ![t].client = Some(c.v)]
                  /\ pc' = [pc EXCEPT ![t] = "cc_probing"]
    /\ UNCHANGED <<shared, lock, call, runs>>

\* lines 296-304, 316-324, 336-344: the probe's request is answered and the
\* result is mapped to a ServiceStatus
CcProbed(t, resps) ==
    /\ pc[t] = "cc_probing"
    /\ \E resp \in resps :
         LET svc == loc[t].service
         IN  loc' = [loc EXCEPT ![t].probe[svc] = Some(resp),
                                ![t].statuses[svc] =
                                    Some(ServiceStatusOf(
                                            client_check_connectivity(loc[t].client.v, resp))),
                                ![t].client = None]
    /\ pc' = [pc EXCEPT ![t] = "cc_store"]
    /\ UNCHANGED <<shared, lock, call, runs>>

\* lines 310, 330, 350-358: state.update_service_status(svc, status); after
\* the third service Ok(ConnectivityResponse {..}) is returned
CcStore(t) ==
    /\ pc[t] = "cc_store"
    /\ Critical(t)
    /\ LET svc == loc[t].service
       IN  /\ connectivity' =
                 UpdateServiceStatus(connectivity, svc, loc[t].statuses[svc].v)
           /\ IF NextService(svc) = "none"
              THEN /\ pc' = [pc EXCEPT ![t] = "done"]
                   /\ loc' = [loc EXCEPT ![t].ret =
                                 Ok(ConnectivityResponse(loc[t].statuses["whisper"].v,
                                                         loc[t].statuses["openwebui"].v,
                                                         loc[t].statuses["elevenlabs"].v))]
              ELSE /\ pc' = [pc EXCEPT ![t] = "cc_checking"]
                   /\ loc' = [loc EXCEPT ![t].service = NextService(svc)]
    /\ UNCHANGED <<status, conversation, config, api_keys, host, issued,
                   appended, call, runs>>

CheckConnectivity(t) ==
    \/ CcGetApiKeys(t)
    \/ CcSetChecking(t)
    \/ CcNewClient(t)
    \/ CcStore(t)

---------------------------------------------------------------------------
(* state.rs: the mutex taken as a step of its own *)

\* task t's next step is a call of an AppState method
AtStateCall(t) ==
    \/ pc[t] \in {"pvq_get_config", "pvq_get_api_keys", "pvq_add_user",
                  "pvq_get_api_messages", "pvq_set_speaking",
                  "pa_get_config", "pa_get_api_keys", "pa_failed",
                  "sm_add_user", "sm_get_config", "sm_get_api_keys",
                  "sm_get_api_messages", "sm_add_assistant", "sm_failed",
                  "ss_get_config", "ss_get_api_keys", "ss_failed",
                  "cc_get_api_keys", "cc_checking", "cc_store"}
    \/ /\ pc[t] \in {"pvq_transcribing", "pvq_thinking", "pvq_speaking",
                     "pa_transcribing", "sm_thinking", "ss_speaking"}
       /\ call[t].phase = "returned"

\* task t is suspended on an .await: a request in flight or a backoff sleep
Suspended(t) == call[t].phase \in {"try", "sleep"} \/ pc[t] = "cc_probing"

\* self.inner.lock().unwrap() of the method task t calls next: t gets the
\* mutex when it is free, and the method's body follows as t's next step
Lock(t) ==
    /\ lock = "free"
    /\ AtStateCall(t)
    /\ lock' = t
    /\ UNCHANGED <<shared, pc, loc, call, runs>>

---------------------------------------------------------------------------
(* config.rs: credential resolution (ConfigManager::get_api_key) *)

\* format!("{}_API_KEY", service.to_uppercase().replace('-', "_"))
env_var_name(service) ==
    CASE service = "whisper" -> "WHISPER_API_KEY"
      [] service = "openwebui" -> "OPENWEBUI_API_KEY"
      [] service = "elevenlabs" -> "ELEVENLABS_API_KEY"

\* let alt_names = match service { .. }
alt_names(service) ==
    CASE service = "whisper" -> <<"OPENAI_API_KEY">>
      [] service = "openwebui" -> <<"OPENWEBUI_API_KEY">>
      [] service = "elevenlabs" -> <<"ELEVENLABS_API_KEY">>
      [] OTHER -> <<>>

\* the environment variables get_api_key reads
EnvNames ==
    {"WHISPER_API_KEY", "OPENAI_API_KEY", "OPENWEBUI_API_KEY", "ELEVENLABS_API_KEY"}

\* the three literals line 307 compares with
KnownPlaceholders ==
    {"your-openai-api-key-here", "your-openwebui-api-key-here",
     "your-elevenlabs-api-key-here"}

\* the values a variable or a keyring entry can hold: empty, a placeholder of
\* .env.example, two values that only look like one, and two keys
KeyTexts ==
    {"", "your-openai-api-key-here", "your-key", "my-api-key-here", "sk-1", "sk-2"}

\* key.contains("your-")
ContainsYour(key) == key \in KnownPlaceholders \cup {"your-key"}

\* key.contains("-api-key-here")
ContainsApiKeyHere(key) == key \in KnownPlaceholders \cup {"my-api-key-here"}

\* line 307: the test on the {SERVICE}_API_KEY variable
PrimaryAccepts(key) == key # "" /\ key \notin KnownPlaceholders

\* line 323: the test on an alternate variable
AlternateAccepts(key) ==
    key # "" /\ ~ContainsYour(key) /\ ~ContainsApiKeyHere(key)

\* the names update_api_key can be given: the services and any other text
ServiceNames == Services \cup {"other"}

\* the process environment, the platform keyring and config.json (None: no
\* file); consulted is history: the services whose keyring entry get_api_key
\* has read
Host(env, keyring) ==
    [env |-> env, keyring |-> keyring, consulted |-> {}, disk |-> None]

\* no variable set, nothing stored, nothing saved
NoHost ==
    Host([n \in EnvNames |-> None], [service \in ServiceNames |-> None])

\* lines 321-328: the first alternate variable that is set and accepted
RECURSIVE FirstAlternate(_, _)
FirstAlternate(env, names) ==
    IF names = <<>> THEN None
    ELSE LET key == env[Head(names)]
         IN  IF key # None /\ AlternateAccepts(key.v) THEN key
             ELSE FirstAlternate(env, Tail(names))

\* lines 305-328: the key the environment gives, None when it gives none
EnvKey(env, service) ==
    LET key == env[env_var_name(service)]
    IN  IF key # None /\ PrimaryAccepts(key.v) THEN key
        ELSE FirstAlternate(env, alt_names(service))

KeyringFirst(h, service, entry) ==
    IF ~entry THEN Err(Error("config", "KeyringError", "entry"))
    ELSE IF h.keyring[service] # None THEN Ok(h.keyring[service].v)
    ELSE IF EnvKey(h.env, service) # None THEN Ok(EnvKey(h.env, service).v)
    ELSE Err(Error("config", "MissingConfig", <<service, env_var_name(service)>>))

\* ConfigManager::get_api_key; entry: whether Entry::new succeeds
get_api_key(h, service, entry) ==
    IF EnvKey(h.env, service) # None THEN Ok(EnvKey(h.env, service).v)
    ELSE IF ~entry THEN Err(Error("config", "KeyringError", "entry"))
    ELSE IF h.keyring[service] # None THEN Ok(h.keyring[service].v)
    ELSE Err(Error("config", "MissingConfig", <<service, env_var_name(service)>>))

\* whether get_api_key reads the keyring entry (lines 331-334)
ReadsKeyring(h, service) == EnvKey(h.env, service) = None

\* config_manager.get_api_key(service) called on the ConfigManager directly
GetApiKey(t, service) ==
    /\ Free(t)
    /\ \E entry \in BOOLEAN :
          loc' = [loc EXCEPT ![t] = [NoLocals EXCEPT
                                        !.cmd = "get_api_key",
                                        !.ret = get_api_key(host, service, entry),
                                        !.service = service]]
    /\ host' = [host EXCEPT !.consulted =
                   IF ReadsKeyring(host, service) THEN @ \cup {service} ELSE @]
    /\ pc' = [pc EXCEPT ![t] = "done"]
    /\ runs' = runs + 1
    /\ UNCHANGED <<status, conversation, config, api_keys, connectivity, lock,
                   issued, appended, call>>

---------------------------------------------------------------------------
(* commands.rs: save_config, update_voice_settings, update_api_key *)

\* ConfigManager::new, ConfigManager::save, ConfigManager::store_api_key
\* failing
SaveFailed == Error("config", "SaveFailed", "io")

KeyringFailed == Error("config", "KeyringError", "entry")

PersistRestores(t, at) ==
    /\ pc[t] = at
    /\ \E made \in BOOLEAN, written \in BOOLEAN :
          IF made /\ written
          THEN /\ host' = [host EXCEPT !.disk = Some(loc[t].config)]
               /\ Return(t, "none", Ok("unit"))
               /\ UNCHANGED config
          ELSE /\ Return(t, "none", Err(to_string(SaveFailed)))
               /\ config' = IF host.disk = None THEN config ELSE host.disk.v
               /\ UNCHANGED host
    /\ UNCHANGED <<status, conversation, api_keys, connectivity, issued,
                   appended, lock, runs>>

\* let config_manager = ConfigManager::new()?; config_manager.save(&config)?;
\* Ok(()): made, written: whether the directory could be made and the file
\* written; the file keeps its content when the write fails
Persist(t, at) ==
    /\ pc[t] = at
    /\ \E made \in BOOLEAN, written \in BOOLEAN :
          IF made /\ written
          THEN /\ host' = [host EXCEPT !.disk = Some(loc[t].config)]
               /\ Return(t, "none", Ok("unit"))
          ELSE /\ Return(t, "none", Err(to_string(SaveFailed)))
               /\ UNCHANGED host
    /\ UNCHANGED <<status, conversation, config, api_keys, connectivity, issued,
                   appended, lock, runs>>

\* save_config, line 246: state.update_config(config.clone())
ScStart(t, c) ==
    /\ Free(t)
    /\ Critical(t)
    /\ config' = c
    /\ pc' = [pc EXCEPT ![t] = "sc_persist"]
    /\ loc' = [loc EXCEPT ![t] = [NoLocals EXCEPT !.config = c,
                                                  !.cmd = "save_config"]]
    /\ call' = [call EXCEPT ![t] = NoFrame]
    /\ runs' = runs + 1
    /\ UNCHANGED <<status, conversation, api_keys, connectivity, issued,
                   appended, host>>

\* lines 249-253
ScPersist(t) == Persist(t, "sc_persist")

SaveConfig(t) == ScPersist(t)

\* update_voice_settings, line 433: let mut config = state.get_config()
UvStart(t, settings) ==
    /\ Free(t)
    /\ Critical(t)
    /\ pc' = [pc EXCEPT ![t] = "uv_update_config"]
    /\ loc' = [loc EXCEPT ![t] = [NoLocals EXCEPT
                                     !.config = config,
                                     !.cmd = "update_voice_settings",
                                     !.arg = Some(settings)]]
    /\ call' = [call EXCEPT ![t] = NoFrame]
    /\ runs' = runs + 1
    /\ UNCHANGED shared

\* lines 434-435: config.elevenlabs.voice_settings = settings;
\* state.update_config(config.clone())
UvUpdate(t) ==
    /\ pc[t] = "uv_update_config"
    /\ Critical(t)
    /\ LET c == [loc[t].config EXCEPT
                    !.elevenlabs.voice_settings = loc[t].arg.v]
       IN  /\ config' = c
           /\ loc' = [loc EXCEPT ![t].config = c]
    /\ pc' = [pc EXCEPT ![t] = "uv_persist"]
    /\ UNCHANGED <<status, conversation, api_keys, connectivity, issued,
                   appended, host, call, runs>>

\* lines 438-441
UvPersist(t) == Persist(t, "uv_persist")

UpdateVoiceSettings(t) == UvUpdate(t) \/ UvPersist(t)

UkStartChecksName(t, service, key) ==
    /\ Free(t)
    /\ lock = "free"
    /\ call' = [call EXCEPT ![t] = NoFrame]
    /\ runs' = runs + 1
    /\ \E made \in BOOLEAN, stored \in BOOLEAN :
          IF made /\ stored /\ service \in Services
          THEN /\ host' = [host EXCEPT !.keyring[service] = Some(key)]
               /\ loc' = [loc EXCEPT ![t] = [NoLocals EXCEPT
                                               !.arg = Some(key),
                                               !.cmd = "update_api_key",
                                               !.service = service]]
               /\ pc' = [pc EXCEPT ![t] = "uk_get_api_keys"]
          ELSE /\ loc' = [loc EXCEPT ![t] = [NoLocals EXCEPT
                                               !.arg = Some(key),
                                               !.cmd = "update_api_key",
                                               !.ret = Err(<<"Unknown service: ",
                                                             service>>),
                                               !.service = service]]
               /\ pc' = [pc EXCEPT ![t] = "done"]
               /\ UNCHANGED host
    /\ UNCHANGED <<status, conversation, config, api_keys, connectivity, issued,
                   appended, lock>>

\* update_api_key, lines 265-268: ConfigManager::new()?, then
\* store_api_key(&service, &api_key)?
UkStart(t, service, key) ==
    /\ Free(t)
    /\ lock = "free"
    /\ call' = [call EXCEPT ![t] = NoFrame]
    /\ runs' = runs + 1
    /\ \E made \in BOOLEAN, stored \in BOOLEAN :
          IF made /\ stored
          THEN /\ host' = [host EXCEPT !.keyring[service] = Some(key)]
               /\ loc' = [loc EXCEPT ![t] = [NoLocals EXCEPT
                                               !.arg = Some(key),
                                               !.cmd = "update_api_key",
                                               !.service = service]]
               /\ pc' = [pc EXCEPT ![t] = "uk_get_api_keys"]
          ELSE /\ loc' = [loc EXCEPT ![t] = [NoLocals EXCEPT
                                               !.arg = Some(key),
                                               !.cmd = "update_api_key",
                                               !.ret = Err(to_string(
                                                   IF made THEN KeyringFailed
                                                   ELSE SaveFailed)),
                                               !.service = service]]
               /\ pc' = [pc EXCEPT ![t] = "done"]
               /\ UNCHANGED host
    /\ UNCHANGED <<status, conversation, config, api_keys, connectivity, issued,
                   appended, lock>>

\* line 271: let mut api_keys = state.get_api_keys()
UkGetApiKeys(t) == GetApiKeys(t, "uk_get_api_keys", "uk_update_api_keys")

\* the key set update_api_key builds from its copy
WithKey(keys, service, key) == [keys EXCEPT ![service] = Some(key)]

\* lines 272-281: the match on the service name, then
\* state.update_api_keys(api_keys), or Err("Unknown service: ..")
UkUpdate(t) ==
    /\ pc[t] = "uk_update_api_keys"
    /\ IF loc[t].service \in Services
       THEN /\ Critical(t)
            /\ api_keys' = WithKey(loc[t].api_keys, loc[t].service, loc[t].arg.v)
            /\ Return(t, "none", Ok("unit"))
       ELSE /\ Return(t, "none", Err(<<"Unknown service: ", loc[t].service>>))
            /\ UNCHANGED <<api_keys, lock>>
    /\ UNCHANGED <<status, conversation, config, connectivity, issued, appended,
                   host, runs>>

UpdateApiKey(t) == UkGetApiKeys(t) \/ UkUpdate(t)

---------------------------------------------------------------------------
(* AppState::new and the specifications *)

\* AppState::new(config, api_keys), id drawn by generate_id
NewConversation(id) ==
    [messages |-> <<>>, max_messages |-> DefaultMaxMessages, id |-> id]

\* AppState::new in a process whose environment and keyring are one of hosts
InitWith(cfgs, keys, hosts) ==
    /\ status = Idle
    /\ \E id \in Ids : conversation = NewConversation(id) /\ issued = {id}
    /\ config \in cfgs
    /\ api_keys \in keys
    /\ connectivity = NewConnectivity
    /\ host \in hosts
    /\ lock = "free"
    /\ appended = <<>>
    /\ pc = [t \in Tasks |-> "idle"]
    /\ loc = [t \in Tasks |-> NoLocals]
    /\ call = [t \in Tasks |-> NoFrame]
    /\ runs = 0

InitState(cfgs, keys) == InitWith(cfgs, keys, {NoHost})

\* One process_voice_query invocation running alone on a fresh AppState ----

InitSolo == InitState(Configs, KeySets)

NextSolo ==
    \/ \E audio \in Audios : runs = 0 /\ PvqStart("t1", audio)
    \/ Pvq("t1")
    \/ \E svc \in Services :
          call["t1"].phase = "try" /\ call["t1"].client.svc = svc
          /\ Attempt("t1", Responses(svc))
    \/ Wake("t1")

SpecSolo == InitSolo /\ [][NextSolo]_vars

\* The conversation under direct add_message and clear_conversation calls ----

\* state.add_message(role, content) called on the AppState directly
ApiAddMessage(role, content) ==
    /\ lock = "free"
    /\ AddMessage(role, content)
    /\ runs' = runs + 1
    /\ UNCHANGED <<status, config, api_keys, host, connectivity, lock, issued,
                   pc, loc, call>>

ClearConversationCancels ==
    /\ lock = "free"
    /\ \E id \in Ids :
          /\ conversation' = Cleared(conversation, id)
          /\ issued' = issued \cup {id}
    /\ appended' = <<>>
    /\ runs' = runs + 1
    /\ call' = [t \in Tasks |->
                   IF call[t].phase \in {"try", "sleep"} THEN NoFrame ELSE call[t]]
    /\ pc' = [t \in Tasks |->
                 IF call[t].phase \in {"try", "sleep"} THEN "done" ELSE pc[t]]
    /\ UNCHANGED <<status, config, api_keys, host, connectivity, lock, loc>>

\* the clear_conversation command: AppState::clear_conversation
ClearConversation ==
    /\ lock = "free"
    /\ \E id \in Ids :
          /\ conversation' = Cleared(conversation, id)
          /\ issued' = issued \cup {id}
    /\ appended' = <<>>
    /\ runs' = runs + 1
    /\ UNCHANGED <<status, config, api_keys, host, connectivity, lock, pc,
                   loc, call>>

\* The AppState methods called one after another, and the process started
\* anew ----

\* a method of AppState called on it directly by task t: the call, its
\* arguments and what it returned are kept in the task's locals
CallMethod(t, name, service, arg, ret) ==
    /\ pc[t] \in {"idle", "done"}
    /\ runs < MaxCalls
    /\ Critical(t)
    /\ loc' = [loc EXCEPT ![t] = [NoLocals EXCEPT !.cmd = name, !.ret = ret,
                                                  !.service = service,
                                                  !.arg = arg]]
    /\ pc' = [pc EXCEPT ![t] = "done"]
    /\ runs' = runs + 1
    /\ UNCHANGED <<call, host>>

\* state.get_status()
ApiGetStatus(t) ==
    /\ CallMethod(t, "get_status", "none", None, Some(status))
    /\ UNCHANGED <<status, conversation, config, api_keys, connectivity, issued,
                   appended>>

\* state.set_status(s)
ApiSetStatus(t, s) ==
    /\ CallMethod(t, "set_status", "none", Some(s), None)
    /\ SetStatus(s)
    /\ UNCHANGED <<conversation, config, api_keys, connectivity, issued,
                   appended>>

\* state.update_config(c)
ApiUpdateConfig(t, c) ==
    /\ CallMethod(t, "update_config", "none", Some(c), None)
    /\ config' = c
    /\ UNCHANGED <<status, conversation, api_keys, connectivity, issued,
                   appended>>

\* state.update_api_keys(keys)
ApiUpdateApiKeys(t, keys) ==
    /\ CallMethod(t, "update_api_keys", "none", Some(keys), None)
    /\ api_keys' = keys
    /\ UNCHANGED <<status, conversation, config, connectivity, issued,
                   appended>>

\* state.add_message(role, content)
ApiPush(t, role, content) ==
    /\ CallMethod(t, "add_message", "none", Some(Message(role, content)), None)
    /\ AddMessage(role, content)
    /\ UNCHANGED <<status, config, api_keys, connectivity, issued>>

\* state.clear_conversation()
ApiClear(t) ==
    /\ CallMethod(t, "clear_conversation", "none", None, None)
    /\ \E id \in Ids :
          /\ conversation' = Cleared(conversation, id)
          /\ issued' = issued \cup {id}
    /\ appended' = <<>>
    /\ UNCHANGED <<status, config, api_keys, connectivity>>

\* state.update_connectivity(c)
ApiUpdateConnectivity(t, c) ==
    /\ CallMethod(t, "update_connectivity", "none", Some(c), None)
    /\ connectivity' = c
    /\ UNCHANGED <<status, conversation, config, api_keys, issued, appended>>

\* state.update_service_status(service, st)
ApiUpdateServiceStatus(t, service, st) ==
    /\ CallMethod(t, "update_service_status", service, Some(st), None)
    /\ connectivity' = UpdateServiceStatus(connectivity, service, st)
    /\ UNCHANGED <<status, conversation, config, api_keys, issued, appended>>

\* lib.rs 31-53: the process has ended and the application is started again;
\* the configuration and the credentials are loaded and AppState::new builds
\* the state.  The environment and the keyring are what the earlier process
\* left.
Startup(t, cfgs, keys) ==
    /\ runs < MaxCalls
    /\ status' = Idle
    /\ \E id \in Ids : conversation' = NewConversation(id) /\ issued' = {id}
    /\ config' \in cfgs
    /\ api_keys' \in keys
    /\ connectivity' = NewConnectivity
    /\ lock' = "free"
    /\ appended' = <<>>
    /\ pc' = [u \in Tasks |-> "idle"]
    /\ loc' = [u \in Tasks |-> IF u = t THEN [NoLocals EXCEPT !.cmd = "new"]
                                ELSE NoLocals]
    /\ call' = [u \in Tasks |-> NoFrame]
    /\ runs' = runs + 1
    /\ UNCHANGED host

InitMethods == InitState(Configs, {NoKeys, AllKeys})

\* the arguments the driver passes
StatusArgs == {Idle, Thinking, StatusError("failed")}

ServiceStatusArgs == {Checking, Connected, Disconnected("down")}

ConnectivityArgs ==
    {[whisper |-> Connected, openwebui |-> Connected, elevenlabs |-> Connected,
      last_checked |-> Now]}

NextMethods ==
    \/ ApiGetStatus("t1")
    \/ \E s \in StatusArgs : ApiSetStatus("t1", s)
    \/ ApiUpdateConfig("t1", StreamingConfig)
    \/ ApiUpdateApiKeys("t1", AllKeys)
    \/ ApiPush("t1", User, Hello)
    \/ ApiClear("t1")
    \/ \E c \in ConnectivityArgs : ApiUpdateConnectivity("t1", c)
    \/ \E service \in Services \cup {"other"}, st \in ServiceStatusArgs :
          ApiUpdateServiceStatus("t1", service, st)
    \/ Startup("t1", Configs, {NoKeys, AllKeys})

SpecMethods == InitMethods /\ [][NextMethods]_vars

InitConv == InitState({DefaultConfig}, {NoKeys})

NextConv ==
    \/ runs < MaxAdds /\ ApiAddMessage(User, MessageN(runs))
    \/ runs < MaxAdds /\ ClearConversation

SpecConv == InitConv /\ [][NextConv]_vars

\* Concurrent invocations on one AppState ----

\* the messages of an AppState that has been through n successful exchanges
RECURSIVE Exchanges(_)
Exchanges(n) ==
    IF n = 0 THEN <<>>
    ELSE Exchanges(n - 1) \o <<Message(User, Hello), Message(Assistant, HiThere)>>

PriorExchanges == {(DefaultMaxMessages \div 2) - 1}

\* an AppState that has been through one of ns successful exchanges
InitAfter(ns) ==
    /\ status = Idle
    /\ \E id \in Ids, n \in ns :
          /\ conversation = [NewConversation(id) EXCEPT !.messages = Exchanges(n)]
          /\ issued = {id}
          /\ appended = Exchanges(n)
    /\ config = DefaultConfig
    /\ api_keys = AllKeys
    /\ connectivity = NewConnectivity
    /\ host = NoHost
    /\ lock = "free"
    /\ pc = [t \in Tasks |-> "idle"]
    /\ loc = [t \in Tasks |-> NoLocals]
    /\ call = [t \in Tasks |-> NoFrame]
    /\ runs = 0

Init == InitAfter(PriorExchanges)

\* the answers the services give in the concurrent specification: a timeout
\* or the ordinary answer
FewResponses(svc) ==
    {Transport(TRUE),
     Http(200, Payload(CASE svc = "whisper" -> Hola
                         [] svc = "openwebui" -> <<HiThere>>
                         [] svc = "elevenlabs" -> <<1, 2, 3>>))}

Next ==
    \/ \E t \in Tasks : PvqStart(t, Audio("X", 1))
    \/ \E t \in Tasks : Pvq(t)
    \/ \E t \in Tasks, svc \in Services :
          call[t].phase = "try" /\ call[t].client.svc = svc
          /\ Attempt(t, FewResponses(svc))
    \/ \E t \in Tasks : Wake(t)
    \/ runs < MaxRuns /\ ApiAddMessage(System, MessageN(runs))
    \/ runs < MaxRuns /\ ClearConversation

Spec == Init /\ [][Next]_vars

\* Two process_voice_query invocations on a fresh AppState, the mutex taken
\* as a step of its own ----

InitPair == InitState({DefaultConfig}, {AllKeys})

\* the answers the services give: two transcripts; a timeout or a reply; audio
PairResponses(svc) ==
    CASE svc = "whisper" -> {Http(200, Payload(Hello)), Http(200, Payload(Hola))}
      [] svc = "openwebui" -> {Transport(TRUE), Http(200, Payload(<<HiThere>>))}
      [] svc = "elevenlabs" -> {Http(200, Payload(<<1, 2, 3>>))}

NextPair ==
    \/ \E t \in Tasks : PvqStart(t, Audio("X", 1))
    \/ \E t \in Tasks : Pvq(t)
    \/ \E t \in Tasks, svc \in Services :
          call[t].phase = "try" /\ call[t].client.svc = svc
          /\ Attempt(t, PairResponses(svc))
    \/ \E t \in Tasks : Wake(t)
    \/ \E t \in Tasks : Lock(t)

SpecPair == InitPair /\ [][NextPair]_vars

\* Two process_voice_query invocations on a fresh AppState, each AppState
\* method one step ----

InitStatus == InitState({DefaultConfig}, {AllKeys})

NextStatus ==
    \/ \E t \in Tasks : PvqStart(t, Audio("X", 1))
    \/ \E t \in Tasks : Pvq(t)
    \/ \E t \in Tasks, svc \in Services :
          call[t].phase = "try" /\ call[t].client.svc = svc
          /\ Attempt(t, PairResponses(svc))
    \/ \E t \in Tasks : Wake(t)

SpecStatus == InitStatus /\ [][NextStatus]_vars

\* One check_connectivity invocation running alone on a fresh AppState ----

InitCheck == InitState({DefaultConfig}, KeySets)

NextCheck ==
    \/ runs = 0 /\ CcStart("t1")
    \/ CheckConnectivity("t1")
    \/ CcProbed("t1", ProbeResponses)

SpecCheck == InitCheck /\ [][NextCheck]_vars

\* Concurrent check_connectivity invocations ----

InitProbe == InitState({DefaultConfig}, KeySets)

\* the answers the probes get in the concurrent specification
FewProbeResponses == {Transport(FALSE), Http(404, Garbage)}

NextProbe ==
    \/ \E t \in Tasks : CcStart(t)
    \/ \E t \in Tasks : CheckConnectivity(t)
    \/ \E t \in Tasks : CcProbed(t, FewProbeResponses)

SpecProbe == InitProbe /\ [][NextProbe]_vars

\* One task running commands one after another ----

InitStep == InitState(Configs, KeySets)

\* the answers the services give: a timeout, a refusal or the ordinary answer
StepResponses(svc) == FewResponses(svc) \cup {Http(401, Garbage)}

NextStep ==
    \/ PaStart("t1", Audio("X", 1))
    \/ ProcessAudio("t1")
    \/ SmStart("t1", Hello)
    \/ SendMessage("t1")
    \/ SsStart("t1", HiThere)
    \/ SynthesizeSpeech("t1")
    \/ CcStart("t1")
    \/ CheckConnectivity("t1")
    \/ CcProbed("t1", FewProbeResponses)
    \/ \E svc \in Services :
          call["t1"].phase = "try" /\ call["t1"].client.svc = svc
          /\ Attempt("t1", StepResponses(svc))
    \/ Wake("t1")
    \/ Free("t1") /\ ClearConversation

SpecStep == InitStep /\ [][NextStep]_vars

\* One task's chat exchanges on a conversation that is empty, nearly full or
\* full ----

HistoryExchanges ==
    {0, (DefaultMaxMessages \div 2) - 1, DefaultMaxMessages \div 2}

InitHistory == InitAfter(HistoryExchanges)

NextHistory ==
    \/ PvqStart("t1", Audio("X", 1))
    \/ Pvq("t1")
    \/ SmStart("t1", Hello)
    \/ SendMessage("t1")
    \/ \E svc \in Services :
          call["t1"].phase = "try" /\ call["t1"].client.svc = svc
          /\ Attempt("t1", FewResponses(svc))
    \/ Wake("t1")

SpecHistory == InitHistory /\ [][NextHistory]_vars

\* synthesize_speech invocations on texts around the limit ----

\* text arguments: ordinary; 5000 and 5001 one-byte characters; 2500 and 2501
\* two-byte characters
SpeechTexts ==
    {HiThere, Str("limit", MAX_CHARS), LongReply,
     Accented(MAX_CHARS \div 2), Accented((MAX_CHARS \div 2) + 1)}

InitSpeech == InitState({DefaultConfig}, {NoKeys, AllKeys})

NextSpeech ==
    \/ \E text \in SpeechTexts : SsStart("t1", text)
    \/ SynthesizeSpeech("t1")
    \/ call["t1"].phase = "try" /\ Attempt("t1", StepResponses("elevenlabs"))
    \/ Wake("t1")

SpecSpeech == InitSpeech /\ [][NextSpeech]_vars

\* One task changing the configuration and the credentials ----

InitSettings == InitState({DefaultConfig}, {NoKeys})

NextSettings ==
    \/ ScStart("t1", StreamingConfig)
    \/ SaveConfig("t1")
    \/ UvStart("t1", "calm")
    \/ UpdateVoiceSettings("t1")
    \/ \E service \in ServiceNames : UkStart("t1", service, "new-key")
    \/ UpdateApiKey("t1")

SpecSettings == InitSettings /\ [][NextSettings]_vars

\* Two tasks changing the credentials and the configuration at once: task
\* t1 sets the whisper key or the voice settings, task t2 the openwebui key
\* or the whole configuration ----

InitRace == InitState({DefaultConfig}, {NoKeys})

NextRace ==
    \/ UkStart("t1", "whisper", "new-key")
    \/ UkStart("t2", "openwebui", "new-key")
    \/ UvStart("t1", "calm")
    \/ ScStart("t2", StreamingConfig)
    \/ \E t \in Tasks : UpdateApiKey(t)
    \/ \E t \in Tasks : UpdateVoiceSettings(t)
    \/ \E t \in Tasks : SaveConfig(t)

SpecRace == InitRace /\ [][NextRace]_vars

\* One process_voice_query invocation (task t1) while task t2 changes the
\* configuration and the credentials ----

InitSnapshot == InitState({DefaultConfig}, {AllKeys})

NextSnapshot ==
    \/ PvqStart("t1", Audio("X", 1))
    \/ Pvq("t1")
    \/ \E svc \in Services :
          call["t1"].phase = "try" /\ call["t1"].client.svc = svc
          /\ Attempt("t1", FewResponses(svc))
    \/ Wake("t1")
    \/ ScStart("t2", StreamingConfig)
    \/ SaveConfig("t2")
    \/ UvStart("t2", "calm")
    \/ UpdateVoiceSettings("t2")
    \/ \E service \in Services : UkStart("t2", service, "new-key")
    \/ UpdateApiKey("t2")

SpecSnapshot == InitSnapshot /\ [][NextSnapshot]_vars

\* One process_voice_query or send_message invocation on a fresh AppState
\* while the conversation is cleared ----

InitClear == InitState({DefaultConfig}, {AllKeys})

NextClear ==
    \/ PvqStart("t1", Audio("X", 1))
    \/ Pvq("t1")
    \/ SmStart("t1", Hello)
    \/ SendMessage("t1")
    \/ \E svc \in Services :
          call["t1"].phase = "try" /\ call["t1"].client.svc = svc
          /\ Attempt("t1", FewResponses(svc))
    \/ Wake("t1")
    \/ runs < MaxRuns /\ ClearConversation

SpecClear == InitClear /\ [][NextClear]_vars

\* One task running the pipeline and the standalone commands under a fair
\* scheduler, every request answered and every sleep ending ----

InitFair == InitState({DefaultConfig}, {AllKeys})

\* the next step of the command task t is in, outside its service call
Continue(t) ==
    \/ Pvq(t)
    \/ ProcessAudio(t)
    \/ SendMessage(t)
    \/ SynthesizeSpeech(t)

\* the transport call of task t returns: a response or a timeout
Answered(t) ==
    \E svc \in Services :
        call[t].phase = "try" /\ call[t].client.svc = svc
        /\ Attempt(t, FewResponses(svc))

NextFair ==
    \/ PvqStart("t1", Audio("X", 1))
    \/ PaStart("t1", Audio("X", 1))
    \/ SmStart("t1", Hello)
    \/ SsStart("t1", HiThere)
    \/ Continue("t1")
    \/ Answered("t1")
    \/ Wake("t1")

\* an invocation arrives or not; once it runs, the runtime keeps polling its
\* future, reqwest's timeout ends every request and the timer every sleep
SpecFair ==
    /\ InitFair
    /\ [][NextFair]_vars
    /\ WF_vars(Continue("t1"))
    /\ WF_vars(Answered("t1"))
    /\ WF_vars(Wake("t1"))

\* One get_api_key call, over the environments and keyrings it can meet ----

\* what a variable holds: unset, or one of the texts
EnvValues == {None} \cup {Some(key) : key \in KeyTexts}

\* what the keyring holds for a service: nothing, or a stored key
StoredValues == {None, Some("sk-store")}

Hosts ==
    {Host(env, keyring) :
        env \in [EnvNames -> EnvValues],
        keyring \in {k \in [ServiceNames -> StoredValues] : k["other"] = None}}

InitKeys == InitWith({DefaultConfig}, {NoKeys}, Hosts)

NextKeys == \E service \in Services : runs = 0 /\ GetApiKey("t1", service)

SpecKeys == InitKeys /\ [][NextKeys]_vars

---------------------------------------------------------------------------
(* The pipeline running alone (SpecSolo) *)

Solo == "t1"

Done == pc[Solo] = "done"

Out(svc) == loc[Solo].outcome[svc]

Messages == conversation.messages

\* C1: process_voice_query alone on an empty conversation, all three service
\* calls succeeding with transcription t, reply r, audio a: it returns the
\* composite {t, r, a}, the conversation ends as exactly [User:t, Assistant:r]
\* and the final status is Idle.
C1_AllSucceed ==
    (Done /\ \A svc \in Services : IsOk(Out(svc)))
    => /\ loc[Solo].ret = Ok(VoiceQueryResponse(Out("whisper").v,
                                                Out("openwebui").v,
                                                Out("elevenlabs").v))
       /\ Messages = <<Message(User, Out("whisper").v),
                       Message(Assistant, Out("openwebui").v)>>
       /\ status = Idle

C1_Witness ==
    /\ Done
    /\ Out("whisper") = Ok(Hello)
    /\ Out("openwebui") = Ok(HiThere)
    /\ Out("elevenlabs") = Ok(<<1, 2, 3>>)
    /\ loc[Solo].ret = Ok(VoiceQueryResponse(Hello, HiThere, <<1, 2, 3>>))

\* C2: transcription succeeds with t and the chat call fails: the conversation
\* gains exactly User:t (no rollback, no Assistant message), the status is
\* Error, no composite is returned and the speech client is never invoked.
C2_ChatFails ==
    (Done /\ IsOk(Out("whisper")) /\ IsErr(Out("openwebui")))
    => /\ Messages = <<Message(User, Out("whisper").v)>>
       /\ status = StatusError(to_string(Out("openwebui").e))
       /\ IsErr(loc[Solo].ret)
       /\ "elevenlabs" \notin loc[Solo].used
       /\ Out("elevenlabs") = None

C2_Witness ==
    /\ Done
    /\ Out("whisper") = Ok(Hello)
    /\ IsErr(Out("openwebui"))
    /\ Out("openwebui").e.kind = "Timeout"
    /\ Messages = <<Message(User, Hello)>>

\* C3: transcription and chat succeed and the speech call fails: both the
\* User and the Assistant message remain, the status is Error(reason) and the
\* invocation returns a failure, not a composite.
C3_SpeechFails ==
    (Done /\ IsOk(Out("whisper")) /\ IsOk(Out("openwebui")) /\ IsErr(Out("elevenlabs")))
    => /\ Messages = <<Message(User, Out("whisper").v),
                       Message(Assistant, Out("openwebui").v)>>
       /\ status = StatusError(to_string(Out("elevenlabs").e))
       /\ loc[Solo].ret = Err(to_string(Out("elevenlabs").e))

C3_Witness ==
    /\ Done
    /\ Out("openwebui") = Ok(HiThere)
    /\ IsErr(Out("elevenlabs"))
    /\ Out("elevenlabs").e.kind = "QuotaExceeded"
    /\ Len(Messages) = 2

\* C4: the transcription call fails: the status becomes Error(reason), the
\* failure is returned, the conversation is left unchanged and neither the
\* chat client nor the speech client is invoked.
C4_TranscriptionFails ==
    (Done /\ IsErr(Out("whisper")))
    => /\ status = StatusError(to_string(Out("whisper").e))
       /\ loc[Solo].ret = Err(to_string(Out("whisper").e))
       /\ \E id \in Ids : conversation = NewConversation(id) /\ issued = {id}
       /\ appended = <<>>
       /\ loc[Solo].used = {"whisper"}

C4_Witness ==
    /\ Done
    /\ IsErr(Out("whisper"))
    /\ Out("whisper").e.kind = "EmptyResponse"
    /\ status.tag = "Error"

\* C5: whenever process_voice_query running alone returns a failure, whatever
\* step caused it (a service call failing or a client failing to construct),
\* the status it leaves is Error(message), not Transcribing, Thinking or
\* Speaking.
C5_FailureLeavesError ==
    (Done /\ IsErr(loc[Solo].ret))
    => /\ status = StatusError(loc[Solo].ret.e)
       /\ status \notin InProgress

---------------------------------------------------------------------------
(* The retry loop of a primary operation (any frame of SpecSolo) *)

Frame == call[Solo]

FailedAt(f, i) == f.log[i].ev = "attempt" /\ IsErr(f.log[i].out)

SucceededAt(f, i) == f.log[i].ev = "attempt" /\ IsOk(f.log[i].out)

\* the events of log whose kind is ev, in order
RECURSIVE Events(_, _)
Events(log, ev) ==
    IF Len(log) = 0 THEN <<>>
    ELSE (IF log[1].ev = ev THEN <<log[1]>> ELSE <<>>) \o Events(Tail(log), ev)

\* the attempts of f in order
AttemptSeq(f) == Events(f.log, "attempt")

\* C8: a primary operation makes at most 3 attempts and stops at the first
\* success: a first success on attempt k <= 3 means exactly k attempts and an
\* Ok result; three failed attempts mean exactly 3 attempts and an Err result.
C8_AtMostThreeAttempts ==
    LET as == AttemptSeq(Frame)
    IN  /\ Len(as) <= max_retries
        /\ \A k \in 1 .. Len(as) : as[k].n = k
        /\ \A k \in 1 .. Len(as) :
              IsOk(as[k].out)
              => /\ k = Len(as)
                 /\ Frame.phase = "returned"
                 /\ Frame.result = as[k].out
        /\ (Frame.phase = "returned" /\ IsOk(Frame.result))
              => Len(as) >= 1 /\ IsOk(as[Len(as)].out)
                 /\ \A j \in 1 .. Len(as) - 1 : IsErr(as[j].out)
        /\ (Frame.phase = "returned" /\ IsErr(Frame.result) /\ Len(as) >= 1)
              => Len(as) = max_retries /\ \A j \in 1 .. Len(as) : IsErr(as[j].out)
        /\ (Frame.phase \in {"try", "sleep"}) => Frame.attempt <= max_retries

C8_Witness ==
    LET as == AttemptSeq(Frame)
    IN  /\ Frame.phase = "returned"
        /\ Frame.client.svc = "elevenlabs"
        /\ Len(as) = 3
        /\ IsErr(as[1].out) /\ IsErr(as[2].out) /\ IsOk(as[3].out)
        /\ IsOk(Frame.result)

\* C9: when all 3 attempts fail, the error returned is the error of the third
\* attempt, also when the three attempts fail with different error kinds.
C9_LastErrorSurfaces ==
    LET as == AttemptSeq(Frame)
    IN  (Frame.phase = "returned" /\ Len(as) = max_retries /\ IsErr(as[max_retries].out))
        => Frame.result = Err(as[max_retries].out.e)

C9_Witness ==
    LET as == AttemptSeq(Frame)
    IN  /\ Frame.phase = "returned"
        /\ Len(as) = 3
        /\ IsErr(as[1].out) /\ IsErr(as[2].out) /\ IsErr(as[3].out)
        /\ as[1].out.e.kind # as[2].out.e.kind
        /\ as[2].out.e.kind # as[3].out.e.kind
        /\ as[1].out.e.kind # as[3].out.e.kind
        /\ Frame.result = as[3].out

\* C10: the first attempt is made with no delay; a wait of exactly 1 second
\* separates a failed attempt 1 from attempt 2 and one of exactly 2 seconds a
\* failed attempt 2 from attempt 3; no wait follows a failed attempt 3 or a
\* successful attempt; the schedule is the same for the three clients.
C10_BackoffSchedule ==
    LET f == Frame
        n == Len(f.log)
    IN  /\ n >= 1 => f.log[1].ev = "attempt" /\ f.log[1].n = 1
        /\ \A i \in 1 .. n :
              /\ (f.log[i].ev = "wait")
                    => /\ i > 1
                       /\ FailedAt(f, i - 1)
                       /\ f.log[i - 1].n \in {1, 2}
                       /\ f.log[i].n = (IF f.log[i - 1].n = 1 THEN 1 ELSE 2)
              /\ (FailedAt(f, i) /\ f.log[i].n < 3)
                    => i < n /\ f.log[i + 1].ev = "wait"
              /\ (SucceededAt(f, i) \/ (FailedAt(f, i) /\ f.log[i].n >= 3))
                    => i = n /\ f.phase = "returned"
              /\ (f.log[i].ev = "attempt" /\ f.log[i].n >= 2)
                    => f.log[i - 1].ev = "wait"
        /\ f.phase = "sleep" => f.log[n].ev = "wait" /\ f.delay = f.log[n].n
        /\ f.phase = "try" /\ f.attempt >= 2 => f.log[n].ev = "wait"

\* the seconds slept in f, in order
Waits(f) == [i \in 1 .. Len(Events(f.log, "wait")) |-> Events(f.log, "wait")[i].n]

C10_Witness ==
    /\ Frame.phase = "returned"
    /\ Frame.client.svc = "elevenlabs"
    /\ IsErr(Frame.result)
    /\ Waits(Frame) = <<1, 2>>
    /\ Len(Frame.log) = 5

---------------------------------------------------------------------------
(* Validation and the classification of one answer (any frame of SpecSolo) *)

\* the input of frame f is over its client's limit
OverLimit(f) ==
    CASE f.client.svc = "whisper" -> f.input.len > MAX_SIZE
      [] f.client.svc = "openwebui" ->
            SumLen(f.input) > f.client.config.max_context_length
      [] f.client.svc = "elevenlabs" -> f.input.len > MAX_CHARS

ValidationKind(svc) ==
    CASE svc = "whisper" -> "AudioFileTooLarge"
      [] svc = "openwebui" -> "ContextLimitExceeded"
      [] svc = "elevenlabs" -> "CharacterLimitExceeded"

\* C11: an input over a client's limit (audio over 25 MiB, total content over
\* max_context_length, text over 5000) fails with that client's validation
\* error before the retry loop is entered: no attempt, no retry, no backoff
\* wait; an input within the limit enters the loop.
C11_ValidationBeforeLoop ==
    Frame.phase # "none"
    => IF OverLimit(Frame)
       THEN /\ Frame.phase = "returned"
            /\ Frame.result =
                  Err(Error(Frame.client.svc, ValidationKind(Frame.client.svc), NoDetail))
            /\ Frame.log = <<>>
            /\ Frame.attempt = 0
            /\ Frame.answer = None
       ELSE /\ Frame.attempt >= 1
            /\ Frame.phase = "returned" => Len(AttemptSeq(Frame)) >= 1

C11_Witness ==
    /\ Frame.phase = "returned"
    /\ Frame.client.svc = "elevenlabs"
    /\ Frame.input = LongReply
    /\ Frame.result = Err(Error("elevenlabs", "CharacterLimitExceeded", NoDetail))
    /\ Frame.log = <<>>

\* the outcome of the latest attempt of f
LastOut(f) == AttemptSeq(f)[Len(AttemptSeq(f))].out

\* the latest request of f was answered with HTTP status code
AnsweredWith(f, codes) ==
    /\ f.answer # None
    /\ f.answer.v.t = "http"
    /\ f.answer.v.code \in codes

\* C17: for each of the three clients, an attempt answered with HTTP 401 or
\* 403 yields AuthenticationFailed and one answered with 429 yields
\* RateLimitExceeded, whatever the response body is.
C17_StatusClassifies ==
    /\ AnsweredWith(Frame, {401, 403})
          => LastOut(Frame) = Err(Error(Frame.client.svc, "AuthenticationFailed", NoDetail))
    /\ AnsweredWith(Frame, {429})
          => LastOut(Frame) = Err(Error(Frame.client.svc, "RateLimitExceeded", NoDetail))

---------------------------------------------------------------------------
(* Two pipelines in flight at once (SpecPair) *)

\* C12: no invocation holds the state container's lock while it is suspended
\* on a service call or on a backoff wait: the lock a task takes for an
\* AppState method is released before the task reaches its next suspension
\* point, so a waiting task never blocks another task's get or set.
C12_NoLockAcrossAwait ==
    \A t \in Tasks :
        /\ Suspended(t) => lock # t
        /\ lock = t => AtStateCall(t)

C12_Witness ==
    \E t \in Tasks, u \in Tasks :
        /\ t # u
        /\ call[t].phase = "sleep"
        /\ lock = u
        /\ pc[u] = "pvq_add_user"

\* task t has appended its User message and not yet its Assistant message
InWindow(t) ==
    /\ loc[t].cmd = "process_voice_query"
    /\ pc[t] \in {"pvq_openwebui", "pvq_get_api_messages", "pvq_thinking"}

\* the (role, content) pair of task t's User message
UserPair(t) == <<"user", loc[t].transcription>>

\* the elements of sequence m
Range(m) == {m[i] : i \in 1 .. Len(m)}

\* C13: two concurrent process_voice_query invocations are not serialised:
\* the history one pipeline passes to its chat call is the conversation as it
\* stands, the other pipeline's User message included when that was appended
\* first; both User messages can stand consecutively before either Assistant
\* message.
C13_PipelinesInterleave ==
    \A t \in Tasks :
        (loc[t].cmd = "process_voice_query" /\ pc[t] = "pvq_thinking")
        => LET m == loc[t].messages
           IN  /\ Len(m) <= Len(Messages)
               /\ \A i \in 1 .. Len(m) :
                     m[i] = <<ApiRole(Messages[i].role), Messages[i].content>>
               /\ UserPair(t) \in Range(m)
               /\ \A u \in Tasks \ {t} :
                     (InWindow(u) /\ Len(m) = Len(Messages)) => UserPair(u) \in Range(m)

C13_Witness ==
    /\ InWindow("t1") /\ InWindow("t2")
    /\ pc["t1"] = "pvq_thinking" /\ call["t1"].phase = "try"
    /\ pc["t2"] = "pvq_thinking" /\ call["t2"].phase = "try"
    /\ Messages = <<Message(User, Hola), Message(User, Hello)>>
    /\ loc["t1"].transcription = Hello
    /\ loc["t2"].transcription = Hola
    /\ loc["t1"].messages = <<<<"user", Hola>>, <<"user", Hello>>>>
    /\ loc["t2"].messages = <<<<"user", Hola>>, <<"user", Hello>>>>

---------------------------------------------------------------------------
(* check_connectivity (SpecCheck: alone; SpecProbe: concurrent) *)

\* the answer the probe of svc got in the invocation of Solo
Probe(svc) == loc[Solo].probe[svc]

\* the ServiceStatus the invocation of Solo computed for svc
StatusOf(svc) == loc[Solo].statuses[svc]

\* C14: for each of the three services a probe answered with HTTP 404 has the
\* service recorded as Connected, and a probe that ends in a transport failure
\* has it recorded as Disconnected.
C14_NotFoundIsReachable ==
    \A svc \in Services :
        (Probe(svc) # None /\ StatusOf(svc) # None)
        => /\ (Probe(svc).v.t = "http" /\ Probe(svc).v.code = 404)
                 => /\ StatusOf(svc).v = Connected
                    /\ Done => connectivity[svc] = Connected
           /\ Probe(svc).v.t = "transport"
                 => /\ StatusOf(svc).v.tag = "Disconnected"
                    /\ Done => connectivity[svc].tag = "Disconnected"

\* no check_connectivity invocation is in flight
Quiescent == \A t \in Tasks : pc[t] \in {"idle", "done"}

\* C15: check_connectivity sets a service's status to Checking before that
\* service's probe starts and to Connected or Disconnected(reason) after it
\* ends (Disconnected also when no probe was made); once every invocation in
\* flight has completed no service's status is Checking, under any
\* interleaving of concurrent invocations.
C15_CheckingThenResult ==
    /\ [](Quiescent => \A svc \in Services : connectivity[svc].tag # "Checking")
    /\ [](\A t \in Tasks :
            /\ pc[t] \in {"cc_new_client", "cc_probing", "cc_store"}
                  => connectivity[loc[t].service].tag # "Unknown"
            /\ pc[t] = "cc_store"
                  => /\ loc[t].statuses[loc[t].service].v.tag
                           \in {"Connected", "Disconnected"}
                     /\ loc[t].probe[loc[t].service] = None
                           => loc[t].statuses[loc[t].service].v.tag = "Disconnected"
            /\ (pc[t] = "done" /\ loc[t].cmd = "check_connectivity")
                  => \A svc \in Services :
                        connectivity[svc].tag \in {"Checking", "Connected", "Disconnected"})
    /\ [][\A t \in Tasks :
            /\ (pc[t] = "cc_checking" /\ pc'[t] # "cc_checking")
                  => /\ pc'[t] = "cc_new_client"
                     /\ connectivity'[loc[t].service] = Checking
            /\ (pc[t] = "cc_store" /\ pc'[t] # "cc_store")
                  => connectivity'[loc[t].service] = loc[t].statuses[loc[t].service].v]_vars

C15_Witness ==
    /\ Quiescent
    /\ \A t \in Tasks : loc[t].cmd = "check_connectivity"
    /\ loc["t1"].statuses["whisper"] = Some(Connected)
    /\ loc["t2"].statuses["whisper"] = Some(Disconnected(ServiceUnreachable))
    /\ connectivity["whisper"] = Connected
    /\ connectivity["openwebui"] = Disconnected(ServiceUnreachable)
    /\ connectivity["elevenlabs"].tag = "Disconnected"

\* C16: the probe never propagates a failure: each client's
\* check_connectivity returns a boolean for every probe outcome, and the
\* check_connectivity command always returns a per-service status triple,
\* never an error, and never changes the application status.
C16_ProbeNeverFails ==
    /\ status = Idle
    /\ \A svc \in Services :
          Probe(svc) # None
          => StatusOf(svc) \in {Some(Connected), Some(Disconnected(ServiceUnreachable))}
    /\ Done
          => /\ IsOk(loc[Solo].ret)
             /\ \A svc \in Services :
                   /\ loc[Solo].ret.v[svc] = StatusOf(svc).v
                   /\ loc[Solo].ret.v[svc].tag \in {"Connected", "Disconnected"}
                   /\ connectivity[svc] = loc[Solo].ret.v[svc]

C16_Witness ==
    /\ Done
    /\ Probe("whisper") = Some(Transport(TRUE))
    /\ Probe("openwebui") = Some(Http(500, Garbage))
    /\ Probe("elevenlabs") = Some(Transport(FALSE))
    /\ loc[Solo].ret =
          Ok(ConnectivityResponse(Disconnected(ServiceUnreachable),
                                  Disconnected(ServiceUnreachable),
                                  Disconnected(ServiceUnreachable)))

---------------------------------------------------------------------------
(* The standalone commands and clear_conversation (SpecStep) *)

Standalone == {"process_audio", "send_message", "synthesize_speech"}

\* the service a standalone command calls
ServiceOf(cmd) ==
    CASE cmd = "process_audio" -> "whisper"
      [] cmd = "send_message" -> "openwebui"
      [] cmd = "synthesize_speech" -> "elevenlabs"

\* the in-progress status a standalone command sets first
BusyOf(cmd) ==
    CASE cmd = "process_audio" -> Transcribing
      [] cmd = "send_message" -> Thinking
      [] cmd = "synthesize_speech" -> Speaking

\* the positions of a standalone command up to the return of its service call
UpToTheCall ==
    {"pa_get_config", "pa_get_api_keys", "pa_whisper", "pa_transcribing",
     "sm_add_user", "sm_get_config", "sm_get_api_keys", "sm_openwebui",
     "sm_get_api_messages", "sm_thinking",
     "ss_get_config", "ss_get_api_keys", "ss_elevenlabs", "ss_speaking"}

\* C19: each standalone command run alone (process_audio, send_message,
\* synthesize_speech) first sets the status to its in-progress value
\* (Transcribing, Thinking, Speaking); when its service call succeeds the
\* status at return is Idle, and when its service call fails the status at
\* return is Error(message) carrying the failure text.
C19_StandaloneStatus ==
    loc[Solo].cmd \in Standalone
    => LET cmd == loc[Solo].cmd
           svc == ServiceOf(cmd)
       IN  /\ pc[Solo] \in UpToTheCall => status = BusyOf(cmd)
           /\ (Done /\ Out(svc) # None /\ IsOk(Out(svc)))
                 => status = Idle /\ loc[Solo].ret = Ok(Out(svc).v)
           /\ (Done /\ Out(svc) # None /\ IsErr(Out(svc)))
                 => /\ status = StatusError(to_string(Out(svc).e))
                    /\ loc[Solo].ret = Err(to_string(Out(svc).e))

C19_Witness ==
    /\ Done
    /\ loc[Solo].cmd = "send_message"
    /\ Out("openwebui") = Err(Error("openwebui", "Timeout", NoDetail))
    /\ status = StatusError(to_string(Error("openwebui", "Timeout", NoDetail)))
    /\ Messages = <<Message(User, Hello)>>

\* a step of SpecStep that is a clear_conversation: an invocation is counted
\* and the task's position stays
IsClear == runs' = runs + 1 /\ pc' = pc

\* C20: after clear_conversation, whatever the prior content, the conversation
\* has zero messages and the same cap as before, and the status, the
\* configuration, the credentials and the connectivity status are unchanged.
C20_ClearFrame ==
    [][IsClear
       => /\ conversation'.messages = <<>>
          /\ conversation'.max_messages = conversation.max_messages
          /\ status' = status
          /\ config' = config
          /\ api_keys' = api_keys
          /\ connectivity' = connectivity]_vars

C20_Witness ==
    /\ Done
    /\ loc[Solo].cmd = "send_message"
    /\ Out("openwebui") = Ok(HiThere)
    /\ appended = <<>>
    /\ conversation.messages = <<>>
    /\ conversation.max_messages = DefaultMaxMessages
    /\ Cardinality(issued) = 2
    /\ status = Idle

---------------------------------------------------------------------------
(* The conversation's cap *)

\* C6: in every reachable state, after any sequence and interleaving of
\* add_message, clear_conversation and command invocations, the conversation
\* holds at most max_messages (20) messages.
C6_CapNeverExceeded ==
    /\ conversation.max_messages = DefaultMaxMessages
    /\ Len(conversation.messages) <= conversation.max_messages

C6_Witness ==
    /\ Len(conversation.messages) = DefaultMaxMessages
    /\ Len(appended) >= DefaultMaxMessages + 2
    /\ \A t \in Tasks : loc[t].cmd = "process_voice_query"
    /\ \E t \in Tasks : pc[t] = "pvq_speaking"

\* the last n elements of s
LastN(s, n) == SubSeq(s, Len(s) - n + 1, Len(s))

\* C7: after N add_message calls on a conversation with cap C, the
\* conversation holds exactly the last C appended messages in their original
\* order when N > C, and all N in order when N <= C.
C7_KeepsLastCap ==
    LET N == Len(appended)
        C == conversation.max_messages
    IN  IF N > C
        THEN conversation.messages = LastN(appended, C)
        ELSE conversation.messages = appended

C7_Witness ==
    /\ Len(appended) = DefaultMaxMessages + 3
    /\ Len(conversation.messages) = DefaultMaxMessages
    /\ conversation.messages[1] = appended[4]
    /\ conversation.messages[DefaultMaxMessages] = appended[Len(appended)]

---------------------------------------------------------------------------
(* Conversation identifiers *)

\* a step of SpecConv that is a clear_conversation: an invocation is counted
\* and the history of pushes starts again
ClearsConversation == runs' = runs + 1 /\ appended' = <<>>

\* C21: every clear_conversation issues a conversation identifier that
\* differs from the identifier of the conversation it replaces and from every
\* identifier issued earlier in the same process.
C21_ClearIssuesFreshId ==
    [][ClearsConversation
       => /\ conversation'.id # conversation.id
          /\ conversation'.id \notin issued]_vars

---------------------------------------------------------------------------
(* Credential resolution (SpecKeys) *)

\* the call made, its service and the variables the service has
KeyCall == loc[Solo].cmd = "get_api_key"

Primary == host.env[env_var_name(loc[Solo].service)]

Alternate ==
    host.env[CASE loc[Solo].service = "whisper" -> "OPENAI_API_KEY"
               [] loc[Solo].service = "openwebui" -> "OPENWEBUI_API_KEY"
               [] loc[Solo].service = "elevenlabs" -> "ELEVENLABS_API_KEY"]

\* a variable qualifies when it is set, not empty and not a placeholder: for
\* the primary variable a placeholder is one of the three known values, for
\* an alternate one it is any value holding "your-" or "-api-key-here"
PrimaryQualifies ==
    /\ Primary # None
    /\ Primary.v \notin
          {"", "your-openai-api-key-here", "your-openwebui-api-key-here",
           "your-elevenlabs-api-key-here"}

AlternateQualifies ==
    /\ Alternate # None
    /\ Alternate.v \notin
          {"", "your-openai-api-key-here", "your-openwebui-api-key-here",
           "your-elevenlabs-api-key-here", "your-key", "my-api-key-here"}

\* C23: get_api_key resolves in strict priority order: a qualifying
\* {SERVICE}_API_KEY variable wins over everything; otherwise a qualifying
\* alternate variable wins over the secret store; the store is consulted only
\* when no environment variable qualifies.
C23_PriorityOrder ==
    KeyCall
    => LET service == loc[Solo].service
           ret == loc[Solo].ret
       IN  /\ PrimaryQualifies
              => ret = Ok(Primary.v) /\ service \notin host.consulted
           /\ (~PrimaryQualifies /\ AlternateQualifies)
              => ret = Ok(Alternate.v) /\ service \notin host.consulted
           /\ (~PrimaryQualifies /\ ~AlternateQualifies)
              => /\ service \in host.consulted
                 /\ (IsOk(ret) => host.keyring[service] = Some(ret.v))
           /\ service \in host.consulted
              => ~PrimaryQualifies /\ ~AlternateQualifies

\* the three ranks at work for whisper: both variables and the keyring hold a
\* key and WHISPER_API_KEY is returned, the keyring unread
C23_Witness ==
    /\ KeyCall
    /\ loc[Solo].service = "whisper"
    /\ host.env["WHISPER_API_KEY"] = Some("sk-1")
    /\ host.env["OPENAI_API_KEY"] = Some("sk-2")
    /\ host.keyring["whisper"] = Some("sk-store")
    /\ loc[Solo].ret = Ok("sk-1")
    /\ host.consulted = {}

---------------------------------------------------------------------------
(* The state container's methods (SpecMethods) *)

\* a step of SpecMethods that is a call of the method name
Calls(name) == runs' = runs + 1 /\ loc'[Solo].cmd = name

\* C22: update_service_status for one of the three services sets only that
\* service's status, leaves the other two unchanged and updates the shared
\* last_checked timestamp; it changes no other field of the state container.
C22_ServiceStatusFrame ==
    [][(Calls("update_service_status") /\ loc'[Solo].service \in Services)
       => /\ connectivity'[loc'[Solo].service] = loc'[Solo].arg.v
          /\ \A other \in Services \ {loc'[Solo].service} :
                connectivity'[other] = connectivity[other]
          /\ connectivity'.last_checked = Now
          /\ status' = status
          /\ conversation' = conversation
          /\ config' = config
          /\ api_keys' = api_keys]_vars

\* whisper was set to Connected, then openwebui to Disconnected, on a
\* container that had been given a status
C22_Witness ==
    /\ loc[Solo].cmd = "update_service_status"
    /\ loc[Solo].service = "openwebui"
    /\ connectivity =
          [whisper |-> Connected, openwebui |-> Disconnected("down"),
           elevenlabs |-> Unknown, last_checked |-> Now]
    /\ status = Thinking

\* C24: a freshly created AppState has status Idle, an empty conversation
\* with cap 20, all three service statuses Unknown and last_checked 0,
\* whatever the process before it had left: no state is carried over.
C24_FreshState ==
    /\ runs = 0 => /\ status = Idle
                   /\ conversation.messages = <<>>
                   /\ conversation.max_messages = 20
                   /\ \A svc \in Services : connectivity[svc] = Unknown
                   /\ connectivity.last_checked = 0
    /\ [][Calls("new")
          => /\ status' = Idle
             /\ conversation'.messages = <<>>
             /\ conversation'.max_messages = 20
             /\ \A svc \in Services : connectivity'[svc] = Unknown
             /\ connectivity'.last_checked = 0]_vars

\* the third step was a restart, so the two calls before it had changed the
\* earlier process's state
C24_Witness ==
    /\ loc[Solo].cmd = "new"
    /\ runs = 3
    /\ status = Idle
    /\ conversation.messages = <<>>
    /\ connectivity.last_checked = 0

\* the methods other than set_status that modify the container
OtherMutators ==
    {"add_message", "clear_conversation", "update_config", "update_api_keys",
     "update_connectivity", "update_service_status"}

\* C25: the status changes only through set_status: a set_status call makes
\* it the value passed, get_status returns the value it holds (so the value
\* of the most recent set_status, Idle if there was none), and add_message,
\* clear_conversation, update_config, update_api_keys, update_connectivity
\* and update_service_status leave it unchanged.
C25_StatusOnlyBySetStatus ==
    /\ runs = 0 => status = Idle
    /\ [][/\ Calls("set_status") => status' = loc'[Solo].arg.v
          /\ Calls("get_status")
             => loc'[Solo].ret = Some(status) /\ status' = status
          /\ (\E name \in OtherMutators : Calls(name)) => status' = status
          /\ status' # status => Calls("set_status") \/ Calls("new")]_vars

\* set_status(Error), then add_message, then get_status returning the Error
C25_Witness ==
    /\ loc[Solo].cmd = "get_status"
    /\ loc[Solo].ret = Some(StatusError("failed"))
    /\ status = StatusError("failed")
    /\ Len(conversation.messages) = 1
    /\ runs = 3

---------------------------------------------------------------------------
(* The pipeline's chat step *)

\* C26: in process_voice_query the User message holding the transcription is
\* appended before the status is set to Thinking: with a single pipeline
\* running, in no reachable state is the status Thinking while that User
\* message is not yet in the conversation.
C26_UserBeforeThinking ==
    (loc[Solo].cmd = "process_voice_query" /\ status = Thinking)
    => \E i \in 1 .. Len(conversation.messages) :
          conversation.messages[i] = Message(User, loc[Solo].transcription)

\* the role as the chat request names it
RoleName(role) ==
    IF role = User THEN "user" ELSE IF role = Assistant THEN "assistant" ELSE "system"

\* the task is inside its chat call
InChat == pc[Solo] \in {"pvq_thinking", "sm_thinking"}

\* the text of the User message the invocation appended
OwnText ==
    IF loc[Solo].cmd = "send_message" THEN loc[Solo].text
    ELSE loc[Solo].transcription

\* C27: the history a pipeline or a standalone send_message passes to the
\* chat client is the complete retained conversation read after its own User
\* message was appended and trimmed: with no concurrent activity it is the
\* conversation's message list, role and content in order, the new User
\* message last, and the same list is used for every retry attempt.
C27_HistoryIsConversation ==
    /\ [](InChat
          => /\ Len(Frame.input) = Len(Messages)
             /\ \A i \in 1 .. Len(Messages) :
                   Frame.input[i] = <<RoleName(Messages[i].role), Messages[i].content>>
             /\ Len(Messages) >= 1
             /\ Frame.input[Len(Messages)] = <<"user", OwnText>>
             /\ Len(Messages) =
                   IF Len(appended) > 20 THEN 20 ELSE Len(appended))
    /\ [][(InChat /\ pc'[Solo] = pc[Solo]) => call'[Solo].input = Frame.input]_vars

\* a pipeline on a full conversation, in its third attempt: the history is
\* the 20 retained messages, the transcription last
C27_Witness ==
    /\ pc[Solo] = "pvq_thinking"
    /\ Frame.attempt = 3
    /\ Len(appended) = 21
    /\ Len(Frame.input) = 20
    /\ Frame.input[1] = <<"assistant", HiThere>>
    /\ Frame.input[20] = <<"user", Hola>>

---------------------------------------------------------------------------
(* Retries do not look at the error *)

\* attempt i of f failed with AuthenticationFailed
AuthFailedAt(as, i) == IsErr(as[i].out) /\ as[i].out.e.kind = "AuthenticationFailed"

\* C28: the retry loop does not filter by error kind: when every attempt
\* fails with AuthenticationFailed the operation still makes all 3 attempts
\* and both backoff waits (1 s, 2 s) before it returns the error; so does
\* synthesize_speech with no credential configured, whose 3 attempts fail
\* with AuthenticationFailed without a request being sent.
C28_AuthFailuresRetried ==
    LET as == AttemptSeq(Frame)
    IN  /\ (/\ Frame.phase = "returned"
            /\ Len(as) >= 1
            /\ \A i \in 1 .. Len(as) : AuthFailedAt(as, i))
           => /\ Len(as) = 3
              /\ Waits(Frame) = <<1, 2>>
              /\ IsErr(Frame.result)
              /\ Frame.result.e.kind = "AuthenticationFailed"
        /\ (/\ Frame.phase # "none"
            /\ Frame.client.svc = "elevenlabs"
            /\ Frame.client.api_key = None)
           => /\ \A i \in 1 .. Len(as) : AuthFailedAt(as, i) /\ ~as[i].sent
              /\ Frame.answer = None
              /\ Frame.phase = "returned" /\ Len(as) >= 1 => Len(as) = 3

\* the pipeline's speech step with no elevenlabs credential, returned after
\* three attempts, none of them sent
C28_Witness ==
    /\ pc[Solo] = "pvq_speaking"
    /\ Frame.phase = "returned"
    /\ Frame.client.svc = "elevenlabs"
    /\ Frame.client.api_key = None
    /\ Len(AttemptSeq(Frame)) = 3
    /\ \A i \in 1 .. 3 : ~AttemptSeq(Frame)[i].sent
    /\ Waits(Frame) = <<1, 2>>
    /\ Frame.result = Err(Error("elevenlabs", "AuthenticationFailed", NoDetail))

---------------------------------------------------------------------------
(* The speech text limit (SpecSpeech) *)

\* the speech operation returned CharacterLimitExceeded without an attempt
RejectedForLength ==
    /\ Frame.phase = "returned"
    /\ Frame.log = <<>>
    /\ Frame.result = Err(Error("elevenlabs", "CharacterLimitExceeded", NoDetail))

\* C29: synthesize_speech rejects a text with CharacterLimitExceeded exactly
\* when the text has more than 5000 characters: every text of at most 5000
\* characters, also one whose characters take more than one byte each, passes
\* validation and reaches the retry loop.
C29_LimitCountsCharacters ==
    (Frame.phase # "none" /\ Frame.client.svc = "elevenlabs")
    => (RejectedForLength <=> Chars(Frame.input) > 5000)

---------------------------------------------------------------------------
(* The standalone commands' status on failure (SpecStep) *)

\* the position where a standalone command waits for its service call, and
\* the one between its set_status(Idle) and its set_status(Error)
AtTheCall == {"pa_transcribing", "sm_thinking", "ss_speaking"}

AfterFailedCall == {"pa_failed", "sm_failed", "ss_failed"}

\* C30: in process_audio, send_message and synthesize_speech the status is
\* set to Idle as soon as the service call has returned, whatever its outcome,
\* and only afterwards to Error(message) when the call failed: a failing run
\* goes in-progress, Idle, Error, and between the two a get_status sees Idle
\* for an operation that has failed.
C30_IdleBeforeError ==
    /\ [](pc[Solo] \in AfterFailedCall
          => status = Idle /\ IsErr(Frame.result))
    /\ [][(pc[Solo] \in AtTheCall /\ pc'[Solo] # pc[Solo])
          => /\ status = BusyOf(loc[Solo].cmd)
             /\ status' = Idle
             /\ IsErr(Frame.result) <=> pc'[Solo] \in AfterFailedCall]_vars
    /\ [][(pc[Solo] \in AfterFailedCall /\ pc'[Solo] # pc[Solo])
          => /\ status' = StatusError(to_string(Frame.result.e))
             /\ pc'[Solo] = "done"]_vars

\* send_message after its chat call timed out three times: the status is
\* Idle, the Error not yet set
C30_Witness ==
    /\ pc[Solo] = "sm_failed"
    /\ status = Idle
    /\ Frame.result = Err(Error("openwebui", "Timeout", NoDetail))
    /\ Messages = <<Message(User, Hello)>>

---------------------------------------------------------------------------
(* Client construction failing in a standalone command (SpecStep) *)

\* the positions where a standalone command builds its client
AtNewClient == {"pa_whisper", "sm_openwebui", "ss_elevenlabs"}

\* the error Client::new of service svc gives, as the command returns it
InitError(svc) ==
    Err(to_string(Error(svc,
                        CASE svc = "whisper" -> "TranscriptionFailed"
                          [] svc = "openwebui" -> "MessageSendFailed"
                          [] svc = "elevenlabs" -> "SynthesisFailed",
                        Detail("builder error", 0))))

\* C31: when client construction fails in a standalone command, the command
\* returns the error without touching the status again, so the status stays
\* at the in-progress value the command set; in send_message the User message
\* has by then been appended and stays in the conversation.
C31_ConstructionFailureKeepsStatus ==
    [][(pc[Solo] \in AtNewClient /\ pc'[Solo] = "done")
       => /\ loc'[Solo].ret = InitError(ServiceOf(loc[Solo].cmd))
          /\ status = BusyOf(loc[Solo].cmd)
          /\ status' = status
          /\ conversation' = conversation
          /\ loc[Solo].cmd = "send_message"
             => /\ Len(Messages) >= 1
                /\ Messages[Len(Messages)] = Message(User, loc[Solo].text)]_vars

\* send_message returned OpenWebUiClient::new's error: Thinking is left
\* behind and the User message is in the conversation
C31_Witness ==
    /\ Done
    /\ loc[Solo].cmd = "send_message"
    /\ loc[Solo].ret = InitError("openwebui")
    /\ status = Thinking
    /\ Messages = <<Message(User, Hello)>>

---------------------------------------------------------------------------
(* Configuration and credential updates (SpecSettings) *)

\* the positions where save_config and update_voice_settings persist
AtPersist == {"sc_persist", "uv_persist"}

\* C33: save_config and update_voice_settings replace the in-memory
\* configuration before persisting it: when persistence fails the command
\* returns an error while the in-memory configuration is already the new one
\* and the persisted one is the old one; the in-memory configuration is not
\* restored.
C33_MemoryBeforeDisk ==
    /\ [](pc[Solo] \in AtPersist => config = loc[Solo].config)
    /\ [][(pc[Solo] \in AtPersist /\ pc'[Solo] = "done")
          => /\ config' = config
             /\ IsOk(loc'[Solo].ret) => host'.disk = Some(config)
             /\ IsErr(loc'[Solo].ret) => host'.disk = host.disk]_vars

\* update_voice_settings was persisted, then save_config failed to persist:
\* memory holds the configuration save_config was given, the file the older
\* one
C33_Witness ==
    /\ Done
    /\ loc[Solo].cmd = "save_config"
    /\ IsErr(loc[Solo].ret)
    /\ config = StreamingConfig
    /\ host.disk = Some([DefaultConfig EXCEPT !.elevenlabs.voice_settings = "calm"])

\* an update_api_key invocation whose service name is none of the three
UnknownName ==
    loc[Solo].cmd = "update_api_key" /\ loc[Solo].service \notin Services

UnknownService == Err(<<"Unknown service: ", loc[Solo].service>>)

\* C34: update_api_key with a service name other than whisper, openwebui or
\* elevenlabs returns an error and leaves the in-memory credentials
\* unchanged, but it validates the name only after writing to the secret
\* store: when the store write succeeded, the store holds an entry for the
\* unknown name although the command failed.
C34_UnknownNameStored ==
    /\ []((UnknownName /\ Done)
          => /\ IsErr(loc[Solo].ret)
             /\ loc[Solo].ret = UnknownService
                => host.keyring[loc[Solo].service] = loc[Solo].arg)
    /\ []((UnknownName /\ ~Done) => host.keyring[loc[Solo].service] = loc[Solo].arg)
    /\ [][(loc'[Solo].cmd = "update_api_key" /\ loc'[Solo].service \notin Services)
          => api_keys' = api_keys]_vars

\* update_api_key("other", key) has failed on the name; the keyring holds the
\* key under that name and the credentials in memory are as before
C34_Witness ==
    /\ UnknownName
    /\ Done
    /\ loc[Solo].ret = UnknownService
    /\ host.keyring["other"] = Some("new-key")
    /\ \A svc \in Services : host.keyring[svc] = None
    /\ api_keys = NoKeys

---------------------------------------------------------------------------
(* Concurrent updates of the credentials and the configuration (SpecRace) *)

\* both tasks have returned success
BothSucceeded ==
    \A t \in Tasks : pc[t] = "done" /\ loc[t].ret = Ok("unit")

\* C35: after two update_api_key invocations for two different services ran
\* concurrently and both returned success, the in-memory credentials hold
\* both new keys; after a concurrent save_config and update_voice_settings
\* both returned success, the in-memory configuration still holds what
\* save_config changed outside the voice settings.
C35_NoUpdateLost ==
    BothSucceeded
    => /\ (\A t \in Tasks : loc[t].cmd = "update_api_key")
          => \A t \in Tasks : api_keys[loc[t].service] = loc[t].arg
       /\ (loc["t1"].cmd = "update_voice_settings"
           /\ loc["t2"].cmd = "save_config")
          => config.openwebui.stream = StreamingConfig.openwebui.stream

---------------------------------------------------------------------------
(* The pipeline's snapshot of the settings (SpecSnapshot) *)

\* the positions of process_voice_query after its two reads
AfterReads ==
    {"pvq_whisper", "pvq_transcribing", "pvq_add_user", "pvq_openwebui",
     "pvq_get_api_messages", "pvq_thinking", "pvq_set_speaking",
     "pvq_elevenlabs", "pvq_speaking"}

\* the client of the operation task t1 is in was built from t1's snapshot
BuiltFromSnapshot ==
    call["t1"].client # None
    => LET c == call["t1"].client
       IN  /\ c.config = loc["t1"].config[c.svc]
           /\ c.api_key = loc["t1"].api_keys[c.svc]

\* C32: process_voice_query reads the configuration and the credentials
\* once, before its transcription step, and builds all three clients from
\* that snapshot: whatever save_config, update_voice_settings or
\* update_api_key does meanwhile, the snapshot stays as read and every
\* client of the pipeline holds the snapshot's settings and credential.
C32_ClientsFromOneSnapshot ==
    /\ [](pc["t1"] \in AfterReads => BuiltFromSnapshot)
    /\ [][(pc["t1"] = "pvq_get_config" /\ pc'["t1"] # "pvq_get_config")
          => loc'["t1"].config = config]_vars
    /\ [][(pc["t1"] = "pvq_get_api_keys" /\ pc'["t1"] # "pvq_get_api_keys")
          => loc'["t1"].api_keys = api_keys]_vars
    /\ [][(pc["t1"] \in AfterReads /\ pc'["t1"] \in AfterReads)
          => /\ loc'["t1"].config = loc["t1"].config
             /\ loc'["t1"].api_keys = loc["t1"].api_keys]_vars

\* the pipeline is in its speech step with the voice settings it read at its
\* start, after update_voice_settings has returned success and changed them
\* in memory and on disk
C32_Witness ==
    /\ pc["t1"] = "pvq_speaking"
    /\ call["t1"].phase = "try"
    /\ call["t1"].client.config = DefaultConfig.elevenlabs
    /\ call["t1"].client.api_key = AllKeys.elevenlabs
    /\ pc["t2"] = "done"
    /\ loc["t2"].ret = Ok("unit")
    /\ config.elevenlabs.voice_settings = "calm"
    /\ host.disk = Some(config)

---------------------------------------------------------------------------
(* Clearing the conversation under a chat call (SpecClear) *)

\* the task is inside its chat call: the request is out or a backoff runs
InChatCall ==
    /\ pc[Solo] \in {"pvq_thinking", "sm_thinking"}
    /\ call[Solo].phase \in {"try", "sleep"}

\* the step in which the command appends the reply of its chat call
AppendsReply ==
    \/ pc[Solo] = "pvq_thinking" /\ pc'[Solo] = "pvq_set_speaking"
    \/ pc[Solo] = "sm_add_assistant" /\ pc'[Solo] = "done"

\* C36: a clear_conversation that runs while process_voice_query or
\* send_message waits on its chat call does not cancel the call: the call
\* and the command's position stay as they were, and the reply is later
\* appended to the conversation as it is then, the cleared one.
C36_ClearDoesNotCancel ==
    /\ [][(InChatCall /\ ClearConversation)
          => /\ call' = call
             /\ pc' = pc
             /\ loc' = loc
             /\ conversation'.messages = <<>>]_vars
    /\ [][AppendsReply
          => conversation' =
                 Pushed(conversation, Assistant, call[Solo].result.v)]_vars

\* the conversation was cleared during the chat call and the reply came
\* after: it holds the Assistant message alone, with no User message
C36_Witness ==
    /\ conversation.messages = <<Message(Assistant, HiThere)>>
    /\ appended = conversation.messages
    /\ loc[Solo].cmd \in {"process_voice_query", "send_message"}
    /\ Len(loc[Solo].messages) = 1
    /\ loc[Solo].messages[1][1] = ApiRole(User)

---------------------------------------------------------------------------
(* The status under two process_voice_query invocations (SpecStatus) *)

\* the in-progress status of the pipeline step in which task t is, or in
\* which its next client could not be built
StepStatus(t) ==
    IF pc[t] = "done"
    THEN CASE "openwebui" \in loc[t].used -> Speaking
           [] "whisper" \in loc[t].used -> Thinking
           [] OTHER -> Transcribing
    ELSE CASE pc[t] \in {"pvq_get_config", "pvq_get_api_keys", "pvq_whisper",
                         "pvq_transcribing"} -> Transcribing
           [] pc[t] \in {"pvq_add_user", "pvq_openwebui",
                         "pvq_get_api_messages", "pvq_thinking",
                         "pvq_set_speaking"} -> Thinking
           [] OTHER -> Speaking

\* task t's pipeline returned the error of one of its service calls
CallFailed(t) ==
    /\ pc[t] = "done"
    /\ IsErr(loc[t].ret)
    /\ \E svc \in Services : IsErr(loc[t].outcome[svc])

\* the status task t's invocation passed to set_status last
LastWrite(t) ==
    IF pc[t] = "done" /\ IsOk(loc[t].ret) THEN Idle
    ELSE IF CallFailed(t) THEN StatusError(loc[t].ret.e)
    ELSE StepStatus(t)

\* task t is waiting on a service call
Waiting(t) == call[t].phase \in {"try", "sleep"}

\* C37: the status is one value shared by all invocations and the last
\* writer wins: it always is what one of the invocations wrote last, and
\* each change of it puts in place what the invocation making the step
\* writes, whatever stood there, another invocation's Error included.
C37_LastWriterWins ==
    /\ []((\E t \in Tasks : pc[t] # "idle")
          => \E t \in Tasks : pc[t] # "idle" /\ status = LastWrite(t))
    /\ [][status' # status
          => \E t \in Tasks : pc'[t] # pc[t] /\ status' = LastWrite(t)']_vars

\* task t1's pipeline failed in its chat call and left Error; task t2 has
\* since written Speaking over it and is waiting on its speech call
C37_Witness ==
    /\ CallFailed("t1")
    /\ IsErr(loc["t1"].outcome["openwebui"])
    /\ pc["t2"] = "pvq_speaking"
    /\ Waiting("t2")
    /\ status = Speaking

\* one pipeline has returned and the status is Idle, or it has failed and
\* the status is its Error, while the other still waits on a service call
C37_IdleOrErrorWhileWaiting ==
    \E t \in Tasks, u \in Tasks :
        /\ pc[t] = "done"
        /\ IsOk(loc[t].ret) \/ CallFailed(t)
        /\ status = LastWrite(t)
        /\ Waiting(u)

---------------------------------------------------------------------------
(* Termination of the commands (SpecFair) *)

\* the task's command has been invoked and has not returned
InFlight == pc[Solo] \notin {"idle", "done"}

\* the step in which the command enters a client's operation
EntersOperation == Frame.phase = "none" /\ Frame'.phase # "none"

\* C38: when every transport call returns and the scheduler is fair, every
\* invocation of process_voice_query and of a standalone command returns.
\* An operation makes at most 3 attempts and sleeps at most twice; an
\* invocation enters each service's operation at most once, the pipeline at
\* most the three of them (9 attempts, 6 sleeps) and a standalone command at
\* most one (3 attempts).
C38_EveryCommandReturns ==
    /\ InFlight ~> Done
    /\ [](/\ Len(AttemptSeq(Frame)) <= max_retries
          /\ Len(Waits(Frame)) <= max_retries - 1
          /\ Frame.phase = "sleep" => Frame.attempt < max_retries)
    /\ [](loc[Solo].cmd \in Standalone => Cardinality(loc[Solo].used) <= 1)
    /\ [][EntersOperation
          => /\ Frame'.client.svc \notin loc[Solo].used
             /\ loc'[Solo].used = loc[Solo].used \cup {Frame'.client.svc}]_vars

\* the pipeline has returned the error of its third speech attempt: it has
\* been through all three operations and slept twice in the last one
C38_Witness ==
    /\ Done
    /\ loc[Solo].cmd = "process_voice_query"
    /\ loc[Solo].used = Services
    /\ IsErr(loc[Solo].ret)
    /\ IsErr(loc[Solo].outcome["elevenlabs"])
    /\ IsOk(loc[Solo].outcome["openwebui"])

---------------------------------------------------------------------------
(* The probes of a check_connectivity that has no credentials (SpecCheck) *)

\* the invocation of Solo read credentials without one for svc
NoCredential(svc) ==
    /\ loc[Solo].cmd = "check_connectivity"
    /\ loc[Solo].api_keys # None
    /\ loc[Solo].api_keys[svc] = None

\* the invocation of Solo could not build its client for svc
NotBuilt(svc) == StatusOf(svc) = Some(Disconnected(InitError(svc).e))

\* C39: with no speech credential the speech probe sends no request and
\* reports unreachable: whenever the client could be built, elevenlabs is
\* recorded as Disconnected("Service unreachable") with no answer from the
\* service involved. The transcription and chat probes are sent without a
\* credential, and what they record follows the answer.
C39_NoKeyNoSpeechProbe ==
    /\ NoCredential("elevenlabs")
       => /\ Probe("elevenlabs") = None
          /\ ~(pc[Solo] = "cc_probing" /\ loc[Solo].service = "elevenlabs")
          /\ (StatusOf("elevenlabs") # None /\ ~NotBuilt("elevenlabs"))
             => StatusOf("elevenlabs") = Some(Disconnected(ServiceUnreachable))
          /\ Done => connectivity["elevenlabs"] = StatusOf("elevenlabs").v
    /\ \A svc \in Services \ {"elevenlabs"} :
          (NoCredential(svc) /\ StatusOf(svc) # None /\ ~NotBuilt(svc))
          => /\ Probe(svc) # None
             /\ StatusOf(svc).v =
                   ServiceStatusOf(client_check_connectivity(
                       NewClient(svc, loc[Solo].config[svc], None, TRUE).v,
                       Probe(svc).v))

\* with no credentials at all the transcription and chat services answered
\* their probes and are Connected; the speech service was not asked and is
\* recorded as unreachable
C39_Witness ==
    /\ Done
    /\ api_keys = NoKeys
    /\ Probe("whisper") = Some(Http(200, Garbage))
    /\ Probe("openwebui") = Some(Http(200, Garbage))
    /\ Probe("elevenlabs") = None
    /\ connectivity["whisper"] = Connected
    /\ connectivity["openwebui"] = Connected
    /\ connectivity["elevenlabs"] = Disconnected(ServiceUnreachable)

===========================================================================
